---------------------------- MODULE Spec2Model ----------------------------
(***************************************************************************)
(* A model of the honeypot API: the intelligence extractor, the scam       *)
(* detector, the conversation manager and the /honeypot endpoint.          *)
(*                                                                         *)
(* A text is a sequence of one-character strings, so that the regular      *)
(* expressions of the source are matched character by character.           *)
(* Scores are integers in hundredths (0.3 is 30), weighted sums in         *)
(* ten-thousandths (0.45 is 4500).                                         *)
(***************************************************************************)
EXTENDS Integers, Sequences, FiniteSets, TLC

(***************************************************************************)
(* Characters and the character classes of Python's re module              *)
(***************************************************************************)
Digits == {"0", "1", "2", "3", "4", "5", "6", "7", "8", "9"}

LowerLetters ==
  <<"a", "b", "c", "d", "e", "f", "g", "h", "i", "j", "k", "l", "m",
    "n", "o", "p", "q", "r", "s", "t", "u", "v", "w", "x", "y", "z">>

UpperLetters ==
  <<"A", "B", "C", "D", "E", "F", "G", "H", "I", "J", "K", "L", "M",
    "N", "O", "P", "Q", "R", "S", "T", "U", "V", "W", "X", "Y", "Z">>

Range(s) == {s[i] : i \in 1..Len(s)}

LowerSet == Range(LowerLetters)

UpperSet == Range(UpperLetters)

AlphaSet == LowerSet \cup UpperSet

AlnumSet == AlphaSet \cup Digits

\* \w of the re module, on the characters of the model
WordSet == AlnumSet \cup {"_"}

\* \s of the re module, on the characters of the model
SpaceSet == {" ", "\n", "\t"}

\* str.lower() and str.upper(), one character
LowerChar(c) ==
  IF c \in UpperSet
    THEN LowerLetters[CHOOSE i \in 1..Len(UpperLetters) : UpperLetters[i] = c]
    ELSE c

UpperChar(c) ==
  IF c \in LowerSet
    THEN UpperLetters[CHOOSE i \in 1..Len(LowerLetters) : LowerLetters[i] = c]
    ELSE c

LowerText(t) == [i \in 1..Len(t) |-> LowerChar(t[i])]

UpperText(t) == [i \in 1..Len(t) |-> UpperChar(t[i])]

\* t[i] exists and is a word character
WordAt(t, i) == i >= 1 /\ i <= Len(t) /\ t[i] \in WordSet

\* \b between t[i-1] and t[i]
Boundary(t, i) == WordAt(t, i - 1) # WordAt(t, i)

\* the text p occurs in t at position i
HasPrefixAt(t, i, p) ==
  /\ i >= 1
  /\ i + Len(p) - 1 <= Len(t)
  /\ \A k \in 1..Len(p) : t[i + k - 1] = p[k]

\* Python's `a in b` on strings
IsSubstring(a, b) == \E i \in 1..(Len(b) - Len(a) + 1) : HasPrefixAt(b, i, a)

\* the end (one past) of the longest run of characters of S that starts at i
RunEnd(t, i, S) ==
  CHOOSE j \in i..(Len(t) + 1) :
    /\ \A k \in i..(j - 1) : t[k] \in S
    /\ (j = Len(t) + 1 \/ t[j] \notin S)

\* the same for a negated class [^...]
RunEndNotIn(t, i, S) ==
  CHOOSE j \in i..(Len(t) + 1) :
    /\ \A k \in i..(j - 1) : t[k] \notin S
    /\ (j = Len(t) + 1 \/ t[j] \in S)

\* str.replace(old, new): left to right, non-overlapping
RECURSIVE ReplaceFrom(_, _, _, _)
ReplaceFrom(t, i, old, new) ==
  IF i > Len(t) THEN <<>>
  ELSE IF HasPrefixAt(t, i, old)
    THEN new \o ReplaceFrom(t, i + Len(old), old, new)
    ELSE <<t[i]>> \o ReplaceFrom(t, i + 1, old, new)

Replace(t, old, new) == ReplaceFrom(t, 1, old, new)

(***************************************************************************)
(* PatternLibrary: the compiled patterns of IntelligenceExtractor and the  *)
(* identical inline patterns of main.extract_intelligence.  Each MatchEnd  *)
(* gives the position one past the match that starts at i, or 0.           *)
(***************************************************************************)
PhoneLen == 10

BankMinLen == 9

BankMaxLen == 18

IfscLen == 11

PhoneFirstDigits == {"6", "7", "8", "9"}

\* [6-9]\d{9}\b at position j
PhoneBodyAt(t, j) ==
  /\ j >= 1
  /\ j + PhoneLen - 1 <= Len(t)
  /\ t[j] \in PhoneFirstDigits
  /\ \A k \in (j + 1)..(j + PhoneLen - 1) : t[k] \in Digits
  /\ Boundary(t, j + PhoneLen)

\* (?:\+91|91|0)?[6-9]\d{9}\b
PhoneMatchEnd(t, i) ==
  IF HasPrefixAt(t, i, <<"+", "9", "1">>) /\ PhoneBodyAt(t, i + 3)
    THEN i + 3 + PhoneLen
  ELSE IF HasPrefixAt(t, i, <<"9", "1">>) /\ PhoneBodyAt(t, i + 2)
    THEN i + 2 + PhoneLen
  ELSE IF HasPrefixAt(t, i, <<"0">>) /\ PhoneBodyAt(t, i + 1)
    THEN i + 1 + PhoneLen
  ELSE IF PhoneBodyAt(t, i) THEN i + PhoneLen
  ELSE 0

\* \b\d{9,18}\b
BankMatchEnd(t, i) ==
  LET e == RunEnd(t, i, Digits)
  IN  IF /\ Boundary(t, i)
         /\ e - i >= BankMinLen
         /\ e - i <= BankMaxLen
         /\ Boundary(t, e)
        THEN e
        ELSE 0

\* \b[A-Z]{4}0[A-Z0-9]{6}\b with re.IGNORECASE
IfscMatchEnd(t, i) ==
  IF /\ Boundary(t, i)
     /\ i + IfscLen - 1 <= Len(t)
     /\ \A k \in i..(i + 3) : t[k] \in AlphaSet
     /\ t[i + 4] = "0"
     /\ \A k \in (i + 5)..(i + IfscLen - 1) : t[k] \in AlnumSet
     /\ Boundary(t, i + IfscLen)
    THEN i + IfscLen
    ELSE 0

\* the characters the URL pattern's negated class excludes (the backquote,
\* which the class excludes too, is no character of the model's texts)
UrlStopSet ==
  SpaceSet \cup {"<", ">", "\"", "'", "{", "}", "|", "\\", "^", "[", "]"}

\* url_pattern: http, an optional s, ://, then one or more characters
\* outside UrlStopSet; re.IGNORECASE
UrlMatchEnd(t, i) ==
  LET schemeEnd ==
        IF ~HasPrefixAt(LowerText(t), i, <<"h", "t", "t", "p">>) THEN 0
        ELSE IF HasPrefixAt(LowerText(t), i + 4, <<"s", ":", "/", "/">>) THEN i + 8
        ELSE IF HasPrefixAt(t, i + 4, <<":", "/", "/">>) THEN i + 7
        ELSE 0
      e == IF schemeEnd = 0 THEN 0 ELSE RunEndNotIn(t, schemeEnd, UrlStopSet)
  IN  IF schemeEnd # 0 /\ e > schemeEnd THEN e ELSE 0

\* the local part of a payment handle: [a-zA-Z0-9._-]
UpiLocalSet == AlnumSet \cup {".", "_", "-"}

\* \b[a-zA-Z0-9._-]+@[a-zA-Z]+\b
UpiMatchEnd(t, i) ==
  LET at == RunEnd(t, i, UpiLocalSet)
      e == IF at <= Len(t) THEN RunEnd(t, at + 1, AlphaSet) ELSE 0
  IN  IF /\ Boundary(t, i)
         /\ at > i
         /\ at <= Len(t)
         /\ t[at] = "@"
         /\ e > at + 1
         /\ Boundary(t, e)
        THEN e
        ELSE 0

MatchEnd(pattern, t, i) ==
  CASE pattern = "phone" -> PhoneMatchEnd(t, i)
    [] pattern = "bank" -> BankMatchEnd(t, i)
    [] pattern = "ifsc" -> IfscMatchEnd(t, i)
    [] pattern = "url" -> UrlMatchEnd(t, i)
    [] pattern = "upi" -> UpiMatchEnd(t, i)

\* pattern.findall(text): the leftmost non-overlapping matches, in order
RECURSIVE FindAllFrom(_, _, _)
RECURSIVE FindAllStep(_, _, _, _)
\* e is where the match that starts at i ends, or 0
FindAllStep(pattern, t, i, e) ==
  IF e = 0 THEN FindAllFrom(pattern, t, i + 1)
  ELSE <<SubSeq(t, i, e - 1)>> \o FindAllFrom(pattern, t, e)

FindAllFrom(pattern, t, i) ==
  IF i > Len(t) THEN <<>> ELSE FindAllStep(pattern, t, i, MatchEnd(pattern, t, i))

FindAll(pattern, t) == FindAllFrom(pattern, t, 1)

(***************************************************************************)
(* IntelligenceExtractor (intelligence_extractor.py)                       *)
(***************************************************************************)
\* a text that is None
None == <<"None">>

\* the result of a call that raised
Raised(exc) == [raised |-> exc]

\* IntelligenceExtractor.upi_suffixes
upi_suffixes ==
  { <<"u", "p", "i">>,
    <<"p", "a", "y", "t", "m">>,
    <<"p", "h", "o", "n", "e", "p", "e">>,
    <<"g", "p", "a", "y">>,
    <<"o", "k", "s", "b", "i">>,
    <<"o", "k", "i", "c", "i", "c", "i">>,
    <<"o", "k", "a", "x", "i", "s">>,
    <<"o", "k", "h", "d", "f", "c", "b", "a", "n", "k">>,
    <<"y", "b", "l">>,
    <<"i", "b", "l">>,
    <<"a", "x", "l">>,
    <<"s", "b", "i">>,
    <<"i", "c", "i", "c", "i">>,
    <<"h", "d", "f", "c">>,
    <<"a", "x", "i", "s">>,
    <<"k", "o", "t", "a", "k">>,
    <<"i", "n", "d", "u", "s">>,
    <<"f", "e", "d", "e", "r", "a", "l">>,
    <<"a", "p", "l">>,
    <<"p", "i", "n", "g", "p", "a", "y">>,
    <<"f", "r", "e", "e", "c", "h", "a", "r", "g", "e">>,
    <<"a", "i", "r", "t", "e", "l">>,
    <<"j", "i", "o">>,
    <<"b", "a", "r", "o", "d", "a", "m", "p", "a", "y">>,
    <<"m", "a", "h", "b">>,
    <<"c", "i", "t", "i">>,
    <<"c", "i", "t", "i", "g", "o", "l", "d">>,
    <<"a", "x", "i", "s", "b">>,
    <<"h", "d", "f", "c", "b", "a", "n", "k">>,
    <<"s", "b", "i", "n">> }

\* main.UPI_SUFFIXES
UPI_SUFFIXES ==
  { <<"u", "p", "i">>,
    <<"p", "a", "y", "t", "m">>,
    <<"p", "h", "o", "n", "e", "p", "e">>,
    <<"g", "p", "a", "y">>,
    <<"o", "k", "s", "b", "i">>,
    <<"o", "k", "i", "c", "i", "c", "i">>,
    <<"y", "b", "l">>,
    <<"i", "b", "l">>,
    <<"a", "x", "l">>,
    <<"s", "b", "i">>,
    <<"i", "c", "i", "c", "i">>,
    <<"h", "d", "f", "c">> }

UrlTrailSet == {".", ",", ";", ":", "!", "?"}

\* url.rstrip('.,;:!?')
RStrip(u) ==
  LET k == CHOOSE k \in 0..Len(u) :
             /\ \A j \in (k + 1)..Len(u) : u[j] \in UrlTrailSet
             /\ (k = 0 \/ u[k] \notin UrlTrailSet)
  IN  SubSeq(u, 1, k)

\* _extract_urls: the matches with trailing punctuation removed, as a list
RStripAll(urls) == [i \in 1..Len(urls) |-> RStrip(urls[i])]

extract_urls(text) == RStripAll(FindAll("url", text))

\* the loop `for url in phishing_urls: text_no_urls.replace(url, ' ')`
RECURSIVE RemoveUrls(_, _, _)
RemoveUrls(text, urls, k) ==
  IF k > Len(urls) THEN text
  ELSE RemoveUrls(Replace(text, urls[k], <<" ">>), urls, k + 1)

\* re.sub(r'^(\+91|91|0)', '', match)
StripPhonePrefix(m) ==
  IF HasPrefixAt(m, 1, <<"+", "9", "1">>) THEN SubSeq(m, 4, Len(m))
  ELSE IF HasPrefixAt(m, 1, <<"9", "1">>) THEN SubSeq(m, 3, Len(m))
  ELSE IF HasPrefixAt(m, 1, <<"0">>) THEN SubSeq(m, 2, Len(m))
  ELSE m

\* _extract_phone_numbers: the normalised matches that are 10 digits, 6-9 first
NormalizedNumbers(matches) ==
  {number \in {StripPhonePrefix(matches[i]) : i \in 1..Len(matches)} :
     Len(number) = PhoneLen /\ number[1] \in PhoneFirstDigits}

extract_phone_numbers(text) == NormalizedNumbers(FindAll("phone", text))

\* match.split('@')[1]
UpiSuffix(m) ==
  LET at == CHOOSE i \in 1..Len(m) : m[i] = "@" /\ \A j \in 1..(i - 1) : m[j] # "@"
  IN  SubSeq(m, at + 1, Len(m))

UpiShortSuffixLen == 10

\* _extract_upi_ids, on the lower-cased text
\* suffix in self.upi_suffixes, or short and alphabetic
AcceptedSuffix(suffix) ==
  \/ suffix \in upi_suffixes
  \/ /\ Len(suffix) <= UpiShortSuffixLen
     /\ Len(suffix) > 0
     /\ \A i \in 1..Len(suffix) : suffix[i] \in AlphaSet

extract_upi_ids(text) ==
  {m \in Range(FindAll("upi", LowerText(text))) : AcceptedSuffix(UpiSuffix(m))}

\* _extract_bank_accounts without the test of 10-digit numbers starting with
\* 6-9, which the code does make
extract_bank_accounts_without_shape_check(text, phone_numbers) ==
  {match \in Range(FindAll("bank", text)) :
     /\ ~(\E phone \in phone_numbers :
            IsSubstring(match, phone) \/ IsSubstring(phone, match))
     /\ BankMinLen <= Len(match)
     /\ Len(match) <= BankMaxLen}

extract_bank_accounts(text, phone_numbers) ==
  {match \in Range(FindAll("bank", text)) :
     /\ ~(\E phone \in phone_numbers :
            IsSubstring(match, phone) \/ IsSubstring(phone, match))
     /\ ~(Len(match) = PhoneLen /\ match[1] \in PhoneFirstDigits)
     /\ BankMinLen <= Len(match)
     /\ Len(match) <= BankMaxLen}

EmptyIntelligence ==
  [bank_accounts |-> {}, ifsc_codes |-> {}, upi_ids |-> {},
   phishing_urls |-> {}, phone_numbers |-> {}]

\* the body of extract_from_text, given the URLs and the phone numbers found
ExtractedFromText(text, phishing_urls, phone_numbers) ==
  [bank_accounts |-> extract_bank_accounts(text, phone_numbers),
   ifsc_codes |-> {UpperText(c) : c \in Range(FindAll("ifsc", text))},
   upi_ids |-> extract_upi_ids(RemoveUrls(text, phishing_urls, 1)),
   phishing_urls |-> Range(phishing_urls),
   phone_numbers |-> phone_numbers]

\* IntelligenceExtractor.extract_from_text; findall(None) raises TypeError
extract_from_text(text) ==
  IF text = None THEN Raised("TypeError")
  ELSE ExtractedFromText(text, extract_urls(text), extract_phone_numbers(text))

\* the lists of `combined`, deduplicated
Combined(extracted) ==
  [bank_accounts |-> UNION {e.bank_accounts : e \in extracted},
   ifsc_codes |-> UNION {e.ifsc_codes : e \in extracted},
   upi_ids |-> UNION {e.upi_ids : e \in extracted},
   phishing_urls |-> UNION {e.phishing_urls : e \in extracted},
   phone_numbers |-> UNION {e.phone_numbers : e \in extracted}]

\* the contents of the messages whose role is 'scammer'
MinedContents(messages) ==
  {messages[i].content : i \in {j \in 1..Len(messages) : messages[j].role = "scammer"}}

\* extract_from_conversation mining the messages of every role, which the
\* code does not do
extract_from_every_message(messages) ==
  IF None \in {messages[i].content : i \in 1..Len(messages)} THEN Raised("TypeError")
  ELSE Combined({extract_from_text(messages[i].content) : i \in 1..Len(messages)})

\* extract_from_conversation mining the latest message only, which the code
\* does not do
extract_from_latest_message(messages) ==
  IF messages = <<>> THEN EmptyIntelligence
  ELSE IF None \in MinedContents(<<messages[Len(messages)]>>) THEN Raised("TypeError")
  ELSE Combined({extract_from_text(c) : c \in MinedContents(<<messages[Len(messages)]>>)})

\* IntelligenceExtractor.extract_from_conversation: only the messages
\* whose role is 'scammer' are mined; the categories are unioned
extract_from_conversation(messages) ==
  IF None \in MinedContents(messages) THEN Raised("TypeError")
  ELSE Combined({extract_from_text(c) : c \in MinedContents(messages)})

(***************************************************************************)
(* main.extract_intelligence (main.py)                                     *)
(***************************************************************************)
MainShortSuffixLen == 8

\* `if not text`: None or the empty string
Falsy(text) == text = None \/ text = <<>>

\* the body of extract_intelligence, given the matches of each pattern
ExtractedIntelligence(potential_upis, phone_numbers, numbers, ifsc_codes, urls) ==
  [bank_accounts |->
     {num \in Range(numbers) :
        /\ ~(Len(num) = PhoneLen /\ num[1] \in PhoneFirstDigits)
        /\ num \notin phone_numbers},
   ifsc_codes |-> Range(ifsc_codes),
   upi_ids |->
     {upi \in Range(potential_upis) :
        \/ UpiSuffix(upi) \in UPI_SUFFIXES
        \/ Len(UpiSuffix(upi)) <= MainShortSuffixLen},
   phishing_urls |-> Range(urls),
   phone_numbers |-> phone_numbers]

\* the normalised phone matches that are 10 characters long
NormalizedPhones(phones) ==
  {p \in {StripPhonePrefix(phones[i]) : i \in 1..Len(phones)} : Len(p) = PhoneLen}

extract_intelligence(text) ==
  IF Falsy(text) THEN EmptyIntelligence
  ELSE ExtractedIntelligence(FindAll("upi", LowerText(text)),
                             NormalizedPhones(FindAll("phone", text)),
                             FindAll("bank", text),
                             FindAll("ifsc", UpperText(text)),
                             FindAll("url", text))

(***************************************************************************)
(* ScamDetector (scam_detector.py) and its lexicon (config.py)             *)
(***************************************************************************)
\* config.SCAM_KEYWORDS["high_confidence"], in the order of the list
high_confidence_keywords ==
  << <<"l", "o", "t", "t", "e", "r", "y">>,
    <<"w", "o", "n">>,
    <<"p", "r", "i", "z", "e">>,
    <<"w", "i", "n", "n", "e", "r">>,
    <<"c", "o", "n", "g", "r", "a", "t", "u", "l", "a", "t", "i", "o", "n", "s">>,
    <<"l", "a", "k", "h", "s">>,
    <<"c", "r", "o", "r", "e", "s">>,
    <<"c", "l", "a", "i", "m">>,
    <<"r", "e", "w", "a", "r", "d">>,
    <<"l", "u", "c", "k", "y">>,
    <<"b", "a", "n", "k", " ", "a", "c", "c", "o", "u", "n", "t">>,
    <<"a", "c", "c", "o", "u", "n", "t", " ", "n", "u", "m", "b", "e", "r">>,
    <<"i", "f", "s", "c">>,
    <<"u", "p", "i">>,
    <<"o", "t", "p">>,
    <<"p", "i", "n">>,
    <<"p", "a", "s", "s", "w", "o", "r", "d">>,
    <<"c", "v", "v">>,
    <<"c", "a", "r", "d", " ", "n", "u", "m", "b", "e", "r">>,
    <<"k", "y", "c">>,
    <<"v", "e", "r", "i", "f", "i", "c", "a", "t", "i", "o", "n">>,
    <<"b", "l", "o", "c", "k", "e", "d">>,
    <<"s", "u", "s", "p", "e", "n", "d", "e", "d">>,
    <<"u", "r", "g", "e", "n", "t">>,
    <<"i", "m", "m", "e", "d", "i", "a", "t", "e", "l", "y">>,
    <<"e", "x", "p", "i", "r", "e">>,
    <<"d", "e", "a", "d", "l", "i", "n", "e">> >>

\* config.SCAM_KEYWORDS["medium_confidence"], in the order of the list
medium_confidence_keywords ==
  << <<"t", "r", "a", "n", "s", "f", "e", "r">>,
    <<"p", "a", "y", "m", "e", "n", "t">>,
    <<"a", "m", "o", "u", "n", "t">>,
    <<"r", "u", "p", "e", "e", "s">>,
    <<"r", "s">>,
    <<"c", "l", "i", "c", "k">>,
    <<"l", "i", "n", "k">>,
    <<"d", "o", "w", "n", "l", "o", "a", "d">>,
    <<"i", "n", "s", "t", "a", "l", "l">>,
    <<"a", "p", "p">>,
    <<"c", "u", "s", "t", "o", "m", "e", "r", " ", "c", "a", "r", "e">>,
    <<"s", "u", "p", "p", "o", "r", "t">>,
    <<"h", "e", "l", "p", "l", "i", "n", "e">>,
    <<"t", "o", "l", "l", "-", "f", "r", "e", "e">>,
    <<"r", "e", "f", "u", "n", "d">>,
    <<"c", "a", "s", "h", "b", "a", "c", "k">>,
    <<"b", "o", "n", "u", "s">>,
    <<"o", "f", "f", "e", "r">>,
    <<"d", "i", "s", "c", "o", "u", "n", "t">> >>

urgency_patterns ==
  << <<"!", "!", "!">>,
    <<"U", "R", "G", "E", "N", "T">>,
    <<"I", "M", "M", "E", "D", "I", "A", "T", "E", "L", "Y">>,
    <<"N", "O", "W">>,
    <<"T", "O", "D", "A", "Y", " ", "O", "N", "L", "Y">>,
    <<"L", "I", "M", "I", "T", "E", "D", " ", "T", "I", "M", "E">> >>

large_amounts ==
  << <<"l", "a", "k", "h">>,
    <<"c", "r", "o", "r", "e">>,
    <<"m", "i", "l", "l", "i", "o", "n">> >>

sensitive_requests ==
  << <<"s", "e", "n", "d", " ", "y", "o", "u", "r">>,
    <<"s", "h", "a", "r", "e", " ", "y", "o", "u", "r">>,
    <<"p", "r", "o", "v", "i", "d", "e", " ", "y", "o", "u", "r">>,
    <<"g", "i", "v", "e", " ", "m", "e", " ", "y", "o", "u", "r">> >>

\* the alternatives of (Rs\.?|₹|INR), lower-cased for re.IGNORECASE
money_prefixes ==
  { <<"r", "s">>,
    <<"₹">>,
    <<"i", "n", "r">> }

\* main.SCAM_KEYWORDS, in the order of the list
SCAM_KEYWORDS ==
  << <<"l", "o", "t", "t", "e", "r", "y">>,
    <<"w", "o", "n">>,
    <<"w", "i", "n", "n", "e", "r">>,
    <<"p", "r", "i", "z", "e">>,
    <<"u", "r", "g", "e", "n", "t">>,
    <<"b", "a", "n", "k", " ", "a", "c", "c", "o", "u", "n", "t">>,
    <<"u", "p", "i">>,
    <<"t", "r", "a", "n", "s", "f", "e", "r">>,
    <<"o", "t", "p">>,
    <<"k", "y", "c">>,
    <<"b", "l", "o", "c", "k", "e", "d">>,
    <<"s", "u", "s", "p", "e", "n", "d", "e", "d">>,
    <<"v", "e", "r", "i", "f", "y">>,
    <<"c", "l", "a", "i", "m">>,
    <<"c", "o", "n", "g", "r", "a", "t", "u", "l", "a", "t", "i", "o", "n", "s">>,
    <<"l", "u", "c", "k", "y">>,
    <<"c", "a", "s", "h", " ", "p", "r", "i", "z", "e">>,
    <<"l", "a", "k", "h">>,
    <<"c", "r", "o", "r", "e">>,
    <<"f", "r", "e", "e", " ", "m", "o", "n", "e", "y">>,
    <<"s", "e", "n", "d", " ", "m", "o", "n", "e", "y">>,
    <<"p", "a", "y", "m", "e", "n", "t">>,
    <<"l", "o", "a", "n">>,
    <<"c", "r", "e", "d", "i", "t">>,
    <<"i", "n", "v", "e", "s", "t", "m", "e", "n", "t">>,
    <<"p", "r", "o", "f", "i", "t">> >>

Min(a, b) == IF a <= b THEN a ELSE b

\* the entries of a keyword list that occur in the text, in list order
Matches(keywords, text) ==
  SelectSeq(keywords, LAMBDA keyword : IsSubstring(keyword, text))

\* scores are in hundredths
HighKeywordScore == 30

MediumKeywordScore == 15

FullScore == 100

KeywordResult(high, medium) ==
  [score |-> Min(HighKeywordScore * Len(high) + MediumKeywordScore * Len(medium),
                 FullScore),
   matches |-> high \o medium]

\* ScamDetector._keyword_analysis
keyword_analysis(message_lower) ==
  KeywordResult(Matches(high_confidence_keywords, message_lower),
                Matches(medium_confidence_keywords, message_lower))

UrgencyScore == 20

MoneyScore == 25

LargeAmountScore == 30

SensitiveRequestScore == 25

MoneyDigitSet == Digits \cup {",", "."}

\* money_pattern matches at i: a prefix, any white space, then a character
\* of [\d,.] (the optional dot after Rs is itself such a character)
MoneyAt(t, i) ==
  \E p \in money_prefixes :
    /\ HasPrefixAt(LowerText(t), i, p)
    /\ RunEnd(t, i + Len(p), SpaceSet) <= Len(t)
    /\ t[RunEnd(t, i + Len(p), SpaceSet)] \in MoneyDigitSet

\* re.search(money_pattern, message, re.IGNORECASE)
MoneySearch(t) == \E i \in 1..Len(t) : MoneyAt(t, i)

\* ScamDetector._pattern_analysis
pattern_analysis(message) ==
  Min(UrgencyScore * Len(Matches(urgency_patterns, UpperText(message)))
        + (IF MoneySearch(message) THEN MoneyScore ELSE 0)
        + LargeAmountScore * Len(Matches(large_amounts, LowerText(message)))
        + SensitiveRequestScore * Len(Matches(sensitive_requests, LowerText(message))),
      FullScore)

\* a key the JSON object does not hold
Missing == [missing |-> TRUE]

\* a JSON number, in hundredths
Number(n) == [num |-> n]

IsNumber(v) == "num" \in DOMAIN v

NeutralScore == 50

Neutral == [score |-> Number(NeutralScore), reason |-> ""]

\* ScamDetector._ai_analysis.  ext is what the external assessment does:
\*   absent                 no Groq client was configured
\*   raises                 the API call raises (an API error, a timeout)
\*   no_content             the reply holds no content (None.strip())
\*   fence_without_newline  a fenced reply of one line (split()[1])
\*   not_json               json.loads raises
\*   json_non_object        the JSON value has no .get
\*   json_object            a JSON object; confidence and reason are its
\*                          values under those keys, or Missing; the
\*                          reason is a JSON string
ai_analysis(ext) ==
  IF ext.kind = "absent" THEN Neutral
  ELSE IF ext.kind # "json_object" THEN Neutral
  ELSE [score |-> IF ext.confidence = Missing THEN Number(NeutralScore)
                  ELSE ext.confidence,
        reason |-> IF ext.reason = Missing THEN "" ELSE ext.reason.str]

\* weights in hundredths, so that a weighted sum is in ten-thousandths
KeywordWeight == 35

PatternWeight == 25

AiWeight == 40

\* 1.0 and 0.45 in ten-thousandths
FullConfidence == 10000

ScamThreshold == 4500

ReasonKeywords == 3

\* the reason: the first three keywords, else the AI's reason, else a fixed text
Reason(matches, ai_reason) ==
  IF matches # <<>>
    THEN <<"Scam keywords detected", SubSeq(matches, 1, Min(ReasonKeywords, Len(matches)))>>
  ELSE IF ai_reason # "" THEN <<ai_reason>>
  ELSE <<"Pattern analysis indicates potential scam">>

DetectionResult(confidence, reason) ==
  [is_scam |-> confidence >= ScamThreshold, confidence |-> confidence, reason |-> reason]

\* the body of detect, given the three layers; a score that is no number
\* makes `ai_score * 0.40` raise TypeError
Detected(keyword, pattern_score, ai) ==
  IF ~IsNumber(ai.score) THEN Raised("TypeError")
  ELSE DetectionResult(
         Min(keyword.score * KeywordWeight + pattern_score * PatternWeight
               + ai.score.num * AiWeight,
             FullConfidence),
         Reason(keyword.matches, ai.reason))

\* ScamDetector.detect; None.lower() raises AttributeError
detect(message, conversation_history, ext) ==
  IF message = None THEN Raised("AttributeError")
  ELSE Detected(keyword_analysis(LowerText(message)), pattern_analysis(message),
                ai_analysis(ext))

(***************************************************************************)
(* main.detect_scam (main.py); confidences in ten-thousandths              *)
(***************************************************************************)
MainBaseConfidence == 5000

MainKeywordConfidence == 1000

MainMaxConfidence == 9900

MainNoIndicatorConfidence == 1000

MainScam(matched_keywords) ==
  IF matched_keywords # <<>>
    THEN [is_scam |-> TRUE,
          confidence |-> Min(MainBaseConfidence
                               + Len(matched_keywords) * MainKeywordConfidence,
                             MainMaxConfidence),
          reason |-> <<"Keywords", matched_keywords>>]
    ELSE [is_scam |-> FALSE, confidence |-> MainNoIndicatorConfidence,
          reason |-> <<"No scam indicators">>]

detect_scam(message) ==
  IF Falsy(message)
    THEN [is_scam |-> FALSE, confidence |-> 0, reason |-> <<"No message">>]
    ELSE MainScam(Matches(SCAM_KEYWORDS, LowerText(message)))

(***************************************************************************)
(* The texts the extractors are applied to: concatenations of pieces that  *)
(* make the patterns meet (a prefix before a number, a handle inside a     *)
(* URL), and the messages of the conversations.                            *)
(***************************************************************************)
MaxPieces == 2

MaxMessages == 2

Space == <<" ">>

Phone == <<"9", "8", "7", "6", "5", "4", "3", "2", "1", "0">>

\* ten digits, 6-9 first, that themselves begin with 91
Phone91 == <<"9", "1", "9", "8", "7", "6", "5", "4", "3", "2">>

Plus91 == <<"+", "9", "1">>

Bare91 == <<"9", "1">>

Zero == <<"0">>

Account == <<"1", "2", "3", "4", "5", "6", "7", "8", "9">>

Handle == <<"a", "@", "y", "b", "l">>

UrlHead == <<"h", "t", "t", "p", ":", "/", "/", "x", ".", "i", "n", "/">>

Ifsc == <<"s", "b", "i", "n", "0", "0", "0", "1", "2", "3", "4">>

Pieces ==
  {Space, Phone, Phone91, Plus91, Bare91, Zero, Account, Handle, UrlHead, Ifsc}

RECURSIVE TextsOf(_)
TextsOf(n) ==
  IF n = 0 THEN {<<>>}
  ELSE LET shorter == TextsOf(n - 1)
       IN  shorter \cup {t \o p : t \in shorter, p \in Pieces}

\* every text of at most MaxPieces pieces
Texts == TextsOf(MaxPieces)

\* what an agent reply may hold: an identifier the sender never wrote
AgentTexts == {<<"o", "k">>, <<"b", "@", "s", "b", "i">> \o Space \o Account}

ConvMessages ==
  {[role |-> "scammer", content |-> t] :
     t \in TextsOf(1) \cup {Zero \o Phone91, UrlHead \o Handle}}
  \cup {[role |-> "agent", content |-> t] : t \in AgentTexts}

(***************************************************************************)
(* State                                                                   *)
(***************************************************************************)
VARIABLES
  call,                  \* the call in hand: [fn, arg, result]
  conversation_manager,  \* ConversationManager.conversations: id -> Conversation
  now,                   \* datetime.utcnow(), in hours
  marked,                \* per conversation, the confidences passed to
                         \* mark_scam_detected since it was created
  conversations,         \* main.conversations: id -> {start_time, messages,
                         \* scam_detected}
  clock,                 \* time.time(), in seconds
  requests               \* the requests to POST /honeypot: [pc, body, response]

managerVars == <<conversation_manager, now, marked>>

endpointVars == <<conversations, clock, requests>>

vars == <<call, conversation_manager, now, marked, conversations, clock, requests>>

\* the conversation manager of a process that never calls it
ManagerIdle ==
  /\ conversation_manager = <<>>
  /\ now = 0
  /\ marked = <<>>

\* the endpoint of a process that receives no request
EndpointIdle ==
  /\ conversations = <<>>
  /\ clock = 0
  /\ requests = <<>>

\* the result of a call that has not run yet
Pending == [pending |-> TRUE]

(***************************************************************************)
(* SpecExtract: the extractors as pure functions.  Init draws the          *)
(* argument, the actions apply the function; a conversation grows by one   *)
(* message and is mined again, as the pipeline does on every turn.         *)
(***************************************************************************)
InitExtract ==
  /\ call \in
    {[fn |-> f, arg |-> t, result |-> Pending] :
       f \in {"extract_from_text", "extract_intelligence"},
       t \in Texts \cup {None}}
    \cup {[fn |-> "extract_from_conversation", arg |-> <<>>, result |-> Pending]}
  /\ ManagerIdle
  /\ EndpointIdle

ExtractFromText ==
  /\ call.fn = "extract_from_text"
  /\ call.result = Pending
  /\ call' = [call EXCEPT !.result = extract_from_text(call.arg)]
  /\ UNCHANGED <<managerVars, endpointVars>>

ExtractIntelligence ==
  /\ call.fn = "extract_intelligence"
  /\ call.result = Pending
  /\ call' = [call EXCEPT !.result = extract_intelligence(call.arg)]
  /\ UNCHANGED <<managerVars, endpointVars>>

ExtractFromConversation ==
  /\ call.fn = "extract_from_conversation"
  /\ call.result = Pending
  /\ call' = [call EXCEPT !.result = extract_from_conversation(call.arg)]
  /\ UNCHANGED <<managerVars, endpointVars>>

\* one more message in the history, and the history mined again
ExtractFromLongerConversation ==
  /\ call.fn = "extract_from_conversation"
  /\ call.result # Pending
  /\ Len(call.arg) < MaxMessages
  /\ \E m \in ConvMessages :
       LET longer == Append(call.arg, m)
       IN  call' = [call EXCEPT !.arg = longer,
                                !.result = extract_from_conversation(longer)]
  /\ UNCHANGED <<managerVars, endpointVars>>

NextExtract ==
  \/ ExtractFromText
  \/ ExtractIntelligence
  \/ ExtractFromConversation
  \/ ExtractFromLongerConversation

SpecExtract == InitExtract /\ [][NextExtract]_vars

(***************************************************************************)
(* Claims about the extractors (SpecExtract)                               *)
(***************************************************************************)
\* the call in hand has run and returned an intelligence record
Returned == call.result # Pending /\ "raised" \notin DOMAIN call.result

PhoneShaped(n) == Len(n) = PhoneLen /\ n[1] \in PhoneFirstDigits

\* C9: whatever text or conversation an extractor (of the class or of
\* main.py) has mined, no string is both in phone_numbers and in
\* bank_accounts, and no bank account is a 10-digit number that starts
\* with 6-9.
C9_PhonesAndAccountsDisjoint ==
  Returned =>
    /\ call.result.phone_numbers \cap call.result.bank_accounts = {}
    /\ \A account \in call.result.bank_accounts : ~PhoneShaped(account)

\* C9 witness: a conversation was mined that yields a phone number (written
\* with the trunk prefix 0) and, from another message, a bank account.
C9_Witness ==
  /\ call.fn = "extract_from_conversation"
  /\ Returned
  /\ call.arg = <<[role |-> "scammer", content |-> Zero \o Phone91],
                  [role |-> "scammer", content |-> Account]>>
  /\ call.result.phone_numbers = {Phone91}
  /\ call.result.bank_accounts = {Account}

SubsetPerCategory(a, b) ==
  /\ a.bank_accounts \subseteq b.bank_accounts
  /\ a.ifsc_codes \subseteq b.ifsc_codes
  /\ a.upi_ids \subseteq b.upi_ids
  /\ a.phishing_urls \subseteq b.phishing_urls
  /\ a.phone_numbers \subseteq b.phone_numbers

\* C10: when a message list M that was mined grows by one message m, each
\* of the five categories of extract_from_conversation(M) is a subset of
\* the same category of extract_from_conversation(M followed by m).
C10_UnionMonotone ==
  [][(/\ call.fn = "extract_from_conversation"
      /\ Returned
      /\ Len(call'.arg) = Len(call.arg) + 1
      /\ SubSeq(call'.arg, 1, Len(call.arg)) = call.arg)
     => SubsetPerCategory(call.result, call'.result)]_vars

\* C10 witness: the second message does not repeat the phone number of
\* the first, and the number is still in the result.
C10_Witness ==
  /\ call.fn = "extract_from_conversation"
  /\ Returned
  /\ call.arg = <<[role |-> "scammer", content |-> Phone],
                  [role |-> "scammer", content |-> Handle]>>
  /\ call.result.phone_numbers = {Phone}
  /\ call.result.upi_ids = {Handle}

\* no keyword, no pattern
MsgHi ==
  <<"h", "i">>

\* three high-confidence keywords
MsgLottery ==
  <<"y", "o", "u", " ", "w", "o", "n", " ", "a", " ", "l", "o", "t", "t",
    "e", "r", "y", " ", "p", "r", "i", "z", "e">>

\* urgency markup and a request for sensitive data
MsgUrgent ==
  <<"U", "R", "G", "E", "N", "T", "!", "!", "!", " ", "s", "e", "n", "d",
    " ", "y", "o", "u", "r", " ", "o", "t", "p", " ", "N", "O", "W">>

\* a currency amount and a large denomination
MsgMoney ==
  <<"R", "s", " ", "5", " ", "l", "a", "k", "h", " ", "t", "r", "a", "n",
    "s", "f", "e", "r">>

\* the end-to-end scenario
MsgEndToEnd ==
  <<"C", "o", "n", "g", "r", "a", "t", "u", "l", "a", "t", "i", "o", "n",
    "s", "!", " ", "Y", "o", "u", " ", "w", "o", "n", " ", "R", "s", " ",
    "5", "0", "0", "0", "0", ".", " ", "S", "e", "n", "d", " ", "y", "o",
    "u", "r", " ", "b", "a", "n", "k", " ", "a", "c", "c", "o", "u", "n",
    "t", " ", "a", "n", "d", " ", "I", "F", "S", "C", " ", "S", "B", "I",
    "N", "0", "0", "0", "1", "2", "3", "4", " ", "t", "o", " ", "c", "l",
    "a", "i", "m", ".", " ", "C", "a", "l", "l", " ", "9", "8", "7", "6",
    "5", "4", "3", "2", "1", "0", ".">>

(***************************************************************************)
(* SpecDetect: the detectors as pure functions.  Init draws the message,   *)
(* the history and what the external assessment does; the actions apply    *)
(* ScamDetector.detect and main.detect_scam.                                *)
(***************************************************************************)
DetectMessages == {<<>>, MsgHi, MsgLottery, MsgUrgent, MsgMoney, MsgEndToEnd}

DetectHistories == {<<>>, <<[role |-> "scammer", content |-> MsgHi]>>}

\* JSON values that are no number
JsonNull == [json |-> "null"]

JsonString(s) == [str |-> s]

\* what the reply may hold under "confidence": nothing, numbers inside and
\* outside [0, 1] (in hundredths), null, a string
JsonConfidences ==
  {Missing, Number(-100), Number(0), Number(50), Number(85), Number(100),
   Number(250), JsonNull, JsonString("high")}

JsonReasons == {Missing, JsonString(""), JsonString("looks like fraud")}

ExternalOutcomes ==
  {[kind |-> k] : k \in {"absent", "raises", "no_content",
                         "fence_without_newline", "not_json", "json_non_object"}}
  \cup {[kind |-> "json_object", confidence |-> c, reason |-> r] :
          c \in JsonConfidences, r \in JsonReasons}

InitDetect ==
  /\ call \in
    {[fn |-> "detect", arg |-> [message |-> m, history |-> h, ext |-> e],
      result |-> Pending] :
       m \in DetectMessages, h \in DetectHistories, e \in ExternalOutcomes}
    \cup {[fn |-> "detect_scam", arg |-> m, result |-> Pending] :
            m \in DetectMessages \cup {None}}
  /\ ManagerIdle
  /\ EndpointIdle

Detect ==
  /\ call.fn = "detect"
  /\ call.result = Pending
  /\ call' = [call EXCEPT
                !.result = detect(call.arg.message, call.arg.history, call.arg.ext)]
  /\ UNCHANGED <<managerVars, endpointVars>>

DetectScam ==
  /\ call.fn = "detect_scam"
  /\ call.result = Pending
  /\ call' = [call EXCEPT !.result = detect_scam(call.arg)]
  /\ UNCHANGED <<managerVars, endpointVars>>

NextDetect == Detect \/ DetectScam

SpecDetect == InitDetect /\ [][NextDetect]_vars

(***************************************************************************)
(* Claims about the detectors (SpecDetect)                                 *)
(***************************************************************************)
\* C7: every result that detect or detect_scam returns has a confidence in
\* [0, 1], and is_scam is true exactly when that confidence is >= 0.45.
C7_ConfidenceInUnitInterval ==
  (call.fn \in {"detect", "detect_scam"} /\ Returned) =>
    /\ call.result.confidence >= 0
    /\ call.result.confidence <= FullConfidence
    /\ call.result.is_scam = (call.result.confidence >= ScamThreshold)

\* the external assessment is absent, raises, or its output cannot be used
\* as {confidence, reason}: no JSON object, or a confidence that is no number
Unusable(ext) ==
  \/ ext.kind # "json_object"
  \/ (ext.confidence # Missing /\ ~IsNumber(ext.confidence))

\* C8: whenever the external assessment is unusable, detect returns the
\* DetectionResult computed from the keyword and pattern signals with the
\* external signal taken as the neutral 0.5 and no reason.
C8_DetectNeverFails ==
  (call.fn = "detect" /\ call.result # Pending /\ Unusable(call.arg.ext)) =>
    call.result = Detected(keyword_analysis(LowerText(call.arg.message)),
                           pattern_analysis(call.arg.message), Neutral)

(***************************************************************************)
(* conversation_manager.py: Conversation and ConversationManager.  Times   *)
(* are in hours; a dict is a function over the ids it holds.               *)
(***************************************************************************)
SecondsPerHour == 3600

DefaultMaxAgeHours == 24

\* Conversation.__init__
Conversation(conversation_id, t) ==
  [conversation_id |-> conversation_id,
   messages |-> <<>>,
   start_time |-> t,
   last_activity |-> t,
   scam_detected |-> FALSE,
   agent_active |-> FALSE,
   confidence_score |-> 0]

\* Conversation.add_message
\* add_message without the update of last_activity, which the code makes
add_message_without_last_activity(conversation, role, content, t) ==
  [conversation EXCEPT
     !.messages = Append(@, [role |-> role, content |-> content, timestamp |-> t])]

add_message(conversation, role, content, t) ==
  [conversation EXCEPT
     !.messages = Append(@, [role |-> role, content |-> content, timestamp |-> t]),
     !.last_activity = t]

\* Conversation.get_turn_count
get_turn_count(conversation) ==
  (Len(conversation.messages) \div 2) + (Len(conversation.messages) % 2)

\* Conversation.get_engagement_duration, in seconds
get_engagement_duration(conversation) ==
  (conversation.last_activity - conversation.start_time) * SecondsPerHour

\* Conversation.get_metrics
get_metrics(conversation) ==
  [turn_count |-> get_turn_count(conversation),
   engagement_duration_seconds |-> get_engagement_duration(conversation),
   messages_exchanged |-> Len(conversation.messages)]

\* ConversationManager.get_or_create: the dict after the call
get_or_create(convs, conversation_id, t) ==
  IF conversation_id \in DOMAIN convs THEN convs
  ELSE [k \in DOMAIN convs \cup {conversation_id} |->
          IF k = conversation_id THEN Conversation(conversation_id, t)
          ELSE convs[k]]

\* what ConversationManager.get returns: the conversation held under the
\* id, or None
NoConversation == [none |-> TRUE]

get(convs, conversation_id) ==
  IF conversation_id \in DOMAIN convs
  THEN [conversation_id |-> convs[conversation_id].conversation_id]
  ELSE NoConversation

\* ConversationManager.add_scammer_message
add_scammer_message(convs, conversation_id, message, t) ==
  [get_or_create(convs, conversation_id, t) EXCEPT
     ![conversation_id] = add_message(@, "scammer", message, t)]

\* ConversationManager.add_agent_response
add_agent_response(convs, conversation_id, response, t) ==
  [get_or_create(convs, conversation_id, t) EXCEPT
     ![conversation_id] = add_message(@, "agent", response, t)]

\* mark_scam_detected with the flag taken from the confidence, which the
\* code does not do
mark_scam_detected_above_threshold(convs, conversation_id, confidence, t) ==
  [get_or_create(convs, conversation_id, t) EXCEPT
     ![conversation_id] = [@ EXCEPT !.scam_detected = confidence >= ScamThreshold,
                                    !.confidence_score = confidence,
                                    !.agent_active = TRUE]]

\* mark_scam_detected setting the flags of every conversation held, which
\* the code does not do
mark_scam_detected_everywhere(convs, conversation_id, confidence, t) ==
  [k \in DOMAIN get_or_create(convs, conversation_id, t) |->
     [get_or_create(convs, conversation_id, t)[k] EXCEPT
        !.scam_detected = TRUE,
        !.confidence_score = confidence,
        !.agent_active = TRUE]]

\* ConversationManager.mark_scam_detected
mark_scam_detected(convs, conversation_id, confidence, t) ==
  [get_or_create(convs, conversation_id, t) EXCEPT
     ![conversation_id] = [@ EXCEPT !.scam_detected = TRUE,
                                    !.confidence_score = confidence,
                                    !.agent_active = TRUE]]

\* cleanup_old_conversations deleting a conversation that is exactly
\* max_age_hours old too, which the code does not do
cleanup_old_conversations_at_cutoff(convs, max_age_hours, t) ==
  [k \in {c \in DOMAIN convs : ~(t - convs[c].last_activity >= max_age_hours)} |->
     convs[k]]

\* ConversationManager.cleanup_old_conversations
cleanup_old_conversations(convs, max_age_hours, t) ==
  [k \in {c \in DOMAIN convs : ~(t - convs[c].last_activity > max_age_hours)} |->
     convs[k]]

(***************************************************************************)
(* SpecManager: the conversation manager under any sequence of calls.      *)
(***************************************************************************)
\* the longest message log a conversation of the model grows to
MaxLog == 2

ConversationIds == {"c1", "c2"}

\* the instants, in hours, at which the manager is called
Hours == {0, 2, 25}

\* the max_age_hours a sweep is called with: the default, and one that puts
\* a conversation exactly on the cutoff
MaxAges == {DefaultMaxAgeHours - 1, DefaultMaxAgeHours}

\* confidences passed to mark_scam_detected, in ten-thousandths
MarkConfidences == {3000, 7000}

ScammerMessages == {MsgLottery}

AgentResponses == {<<"o", "k">>}

\* no call of a pure function is in hand
NoCall == [fn |-> "none", arg |-> "none", result |-> Pending]

\* the confidences remembered for the conversations of convs
Tracked(convs) ==
  [k \in DOMAIN convs |-> IF k \in DOMAIN marked THEN marked[k] ELSE {}]

HasRoom(conversation_id) ==
  conversation_id \in DOMAIN conversation_manager =>
    Len(conversation_manager[conversation_id].messages) < MaxLog

InitManager ==
  /\ call = NoCall
  /\ ManagerIdle
  /\ EndpointIdle

GetOrCreate ==
  \E id \in ConversationIds :
    /\ conversation_manager' = get_or_create(conversation_manager, id, now)
    /\ marked' = Tracked(conversation_manager')
    /\ call' = NoCall
    /\ UNCHANGED <<now, endpointVars>>

\* a lookup returns the conversation or None, and changes nothing
Get ==
  \E id \in ConversationIds :
    /\ get(conversation_manager, id) \in {NoConversation, [conversation_id |-> id]}
    /\ UNCHANGED vars

AddScammerMessage ==
  \E id \in ConversationIds, message \in ScammerMessages :
    /\ HasRoom(id)
    /\ conversation_manager' =
         add_scammer_message(conversation_manager, id, message, now)
    /\ marked' = Tracked(conversation_manager')
    /\ call' = NoCall
    /\ UNCHANGED <<now, endpointVars>>

AddAgentResponse ==
  \E id \in ConversationIds, response \in AgentResponses :
    /\ HasRoom(id)
    /\ conversation_manager' =
         add_agent_response(conversation_manager, id, response, now)
    /\ marked' = Tracked(conversation_manager')
    /\ call' = NoCall
    /\ UNCHANGED <<now, endpointVars>>

MarkScamDetected ==
  \E id \in ConversationIds, confidence \in MarkConfidences :
    /\ conversation_manager' =
         mark_scam_detected(conversation_manager, id, confidence, now)
    /\ marked' = [Tracked(conversation_manager') EXCEPT ![id] = @ \cup {confidence}]
    /\ call' = NoCall
    /\ UNCHANGED <<now, endpointVars>>

\* a sweep; one that deleted something is remembered with its
\* max_age_hours and the ids it deleted
CleanupOldConversations ==
  \E max_age_hours \in MaxAges :
    /\ conversation_manager' =
         cleanup_old_conversations(conversation_manager, max_age_hours, now)
    /\ marked' = Tracked(conversation_manager')
    /\ call' = IF DOMAIN conversation_manager' = DOMAIN conversation_manager
               THEN NoCall
               ELSE [fn |-> "cleanup_old_conversations",
                     arg |-> max_age_hours,
                     result |-> DOMAIN conversation_manager \
                                  DOMAIN conversation_manager']
    /\ UNCHANGED <<now, endpointVars>>

\* time passes between two calls
Later ==
  \E t \in Hours :
    /\ t > now
    /\ now' = t
    /\ call' = NoCall
    /\ UNCHANGED <<conversation_manager, marked, endpointVars>>

NextManager ==
  \/ GetOrCreate
  \/ Get
  \/ AddScammerMessage
  \/ AddAgentResponse
  \/ MarkScamDetected
  \/ CleanupOldConversations
  \/ Later

SpecManager == InitManager /\ [][NextManager]_vars

(***************************************************************************)
(* Claims about the conversation manager (SpecManager)                     *)
(***************************************************************************)
Max(S) == CHOOSE x \in S : \A y \in S : y <= x

\* C1: the confidence score of a conversation is the largest confidence
\* passed to mark_scam_detected since the conversation was created.
C1_ConfidenceIsMaximum ==
  \A id \in DOMAIN conversation_manager :
    marked[id] # {} =>
      conversation_manager[id].confidence_score = Max(marked[id])

\* two dicts hold the same values under the same keys
SameDict(a, b) ==
  /\ DOMAIN a = DOMAIN b
  /\ \A k \in DOMAIN a : a[k] = b[k]

\* a call of mark_scam_detected sets both flags, and the same call again
\* leaves the dict as the first call left it
MarkSetsFlagsOnce(id, confidence) ==
  LET once == mark_scam_detected(conversation_manager, id, confidence, now)
  IN  /\ once[id].scam_detected
      /\ once[id].agent_active
      /\ SameDict(mark_scam_detected(once, id, confidence, now), once)

\* C2: while a conversation is held, a step never takes its scam_detected
\* from true to false; mark_scam_detected sets scam_detected and
\* agent_active, and repeating the call changes nothing further.
C2_ScamFlagMonotone ==
  /\ [][\A id \in DOMAIN conversation_manager \cap DOMAIN conversation_manager' :
          conversation_manager[id].scam_detected =>
            conversation_manager'[id].scam_detected]_vars
  /\ [](\A id \in ConversationIds, confidence \in MarkConfidences :
          MarkSetsFlagsOnce(id, confidence))

\* a conversation marked with both confidences, still flagged after a
\* message was appended to it
C2_Witness ==
  \E id \in DOMAIN conversation_manager :
    /\ marked[id] = MarkConfidences
    /\ conversation_manager[id].scam_detected
    /\ conversation_manager[id].agent_active
    /\ conversation_manager[id].messages # <<>>
    /\ conversation_manager[id].last_activity > conversation_manager[id].start_time

(***************************************************************************)
(* main.py: generate_response and the POST /honeypot handler               *)
(***************************************************************************)
\* "Hello! How can I help you?"
Greeting ==
  <<"H", "e", "l", "l", "o", "!", " ", "H", "o", "w", " ", "c", "a", "n",
    " ", "I", " ", "h", "e", "l", "p", " ", "y", "o", "u", "?">>

\* "Hello! How can I help you today?"
GreetingToday ==
  <<"H", "e", "l", "l", "o", "!", " ", "H", "o", "w", " ", "c", "a", "n",
    " ", "I", " ", "h", "e", "l", "p", " ", "y", "o", "u", " ", "t", "o",
    "d", "a", "y", "?">>

\* "Hello, I received your message."
DefaultMessage ==
  <<"H", "e", "l", "l", "o", ",", " ", "I", " ", "r", "e", "c", "e", "i",
    "v", "e", "d", " ", "y", "o", "u", "r", " ", "m", "e", "s", "s", "a",
    "g", "e", ".">>

\* the replies generate_response picks from when the message is a scam
responses ==
  { <<"O", "h", " ", "r", "e", "a", "l", "l", "y", "?", " ", "T", "h", "i",
      "s", " ", "s", "o", "u", "n", "d", "s", " ", "a", "m", "a", "z", "i",
      "n", "g", "!", " ", "C", "a", "n", " ", "y", "o", "u", " ", "t", "e",
      "l", "l", " ", "m", "e", " ", "m", "o", "r", "e", " ", "a", "b", "o",
      "u", "t", " ", "h", "o", "w", " ", "t", "o", " ", "c", "l", "a", "i",
      "m", " ", "t", "h", "i", "s", "?">>,
    <<"W", "o", "w", ",", " ", "I", " ", "w", "a", "s", "n", "'", "t", " ",
      "e", "x", "p", "e", "c", "t", "i", "n", "g", " ", "t", "h", "i", "s",
      "!", " ", "W", "h", "a", "t", " ", "d", "e", "t", "a", "i", "l", "s",
      " ", "d", "o", " ", "y", "o", "u", " ", "n", "e", "e", "d", " ", "f",
      "r", "o", "m", " ", "m", "e", "?">>,
    <<"T", "h", "a", "n", "k", " ", "y", "o", "u", " ", "f", "o", "r", " ",
      "r", "e", "a", "c", "h", "i", "n", "g", " ", "o", "u", "t", "!", " ",
      "I", "'", "m", " ", "d", "e", "f", "i", "n", "i", "t", "e", "l", "y",
      " ", "i", "n", "t", "e", "r", "e", "s", "t", "e", "d", ".", " ", "W",
      "h", "a", "t", " ", "s", "h", "o", "u", "l", "d", " ", "I", " ", "d",
      "o", " ", "n", "e", "x", "t", "?">>,
    <<"T", "h", "i", "s", " ", "i", "s", " ", "w", "o", "n", "d", "e", "r",
      "f", "u", "l", " ", "n", "e", "w", "s", "!", " ", "H", "o", "w", " ",
      "d", "o", " ", "I", " ", "v", "e", "r", "i", "f", "y", " ", "t", "h",
      "i", "s", " ", "i", "s", " ", "g", "e", "n", "u", "i", "n", "e", "?",
      " ", "W", "h", "a", "t", "'", "s", " ", "t", "h", "e", " ", "p", "r",
      "o", "c", "e", "s", "s", "?">>,
    <<"O", "h", " ", "m", "y", "!", " ", "I", "'", "v", "e", " ", "n", "e",
      "v", "e", "r", " ", "w", "o", "n", " ", "a", "n", "y", "t", "h", "i",
      "n", "g", " ", "b", "e", "f", "o", "r", "e", ".", " ", "P", "l", "e",
      "a", "s", "e", " ", "g", "u", "i", "d", "e", " ", "m", "e", " ", "o",
      "n", " ", "w", "h", "a", "t", " ", "t", "o", " ", "d", "o", " ", "n",
      "e", "x", "t", ".">> }
\* main.generate_response: the replies random.choice may return
generate_response(message, is_scam) ==
  IF Falsy(message) THEN {Greeting}
  ELSE IF is_scam THEN responses
  ELSE {GreetingToday}

\* The JSON body of a request holds, under the keys for the message and for
\* the conversation id, a JSON string (JsonString), a number (Number), a
\* non-empty list (JsonList), or nothing the handler takes: no such key, or
\* a falsy value (Missing).  A body that is no JSON object gives the
\* message alone (a JSON string, plain text) or nothing (an empty body,
\* another JSON value), as a JSON object with keys Missing does.  read is
\* FALSE when reading or decoding the body raises.
JsonList == [list |-> TRUE]

IsString(v) == "str" \in DOMAIN v

IsMissing(v) == "missing" \in DOMAIN v

\* lines 199-231: the message is taken from the body, and .strip() is
\* called on it unless it is falsy
MessageRaises(body) == ~IsMissing(body.message) /\ ~IsString(body.message)

MessageOf(body) ==
  IF IsMissing(body.message) THEN DefaultMessage
  ELSE IF Range(body.message.str) \subseteq SpaceSet THEN DefaultMessage
  ELSE body.message.str

\* line 195 and lines 213-220: the id of the body, or conv-<milliseconds>
MillisPerSecond == 1000

ConvIdOf(body, t) ==
  IF IsString(body.conversation_id) THEN body.conversation_id.str
  ELSE "conv-" \o ToString(t * MillisPerSecond)

\* line 239: a list is no key of a dict
ConvIdRaises(body) == "list" \in DOMAIN body.conversation_id

\* lines 277-284: JSONResponse encodes the content as UTF-8, which a string
\* holding a lone surrogate does not have
LoneSurrogateId == "\\ud800"

RenderRaises(content) == content.conversation_id = LoneSurrogateId

\* line 252
turn_count_of_all_messages(messages) == Len(messages)

turn_count(messages) ==
  Cardinality({i \in DOMAIN messages : messages[i].role = "scammer"})

\* lines 239-250 without the test of line 239: the entry is made anew
track_without_membership_test(convs, conv_id, message, agent_response, is_scam, t) ==
  [k \in DOMAIN convs \cup {conv_id} |->
     IF k = conv_id
     THEN [start_time |-> t,
           messages |-> <<[role |-> "scammer", content |-> message],
                          [role |-> "agent", content |-> agent_response]>>,
           scam_detected |-> is_scam]
     ELSE convs[k]]

\* lines 239-250: the dict after the message and the reply are logged
track(convs, conv_id, message, agent_response, is_scam, t) ==
  [k \in DOMAIN convs \cup {conv_id} |->
     IF k = conv_id
     THEN LET conv == IF conv_id \in DOMAIN convs THEN convs[conv_id]
                      ELSE [start_time |-> t, messages |-> <<>>,
                            scam_detected |-> FALSE]
          IN  [start_time |-> conv.start_time,
               messages |-> conv.messages
                              \o <<[role |-> "scammer", content |-> message],
                                   [role |-> "agent", content |-> agent_response]>>,
               scam_detected |-> conv.scam_detected \/ is_scam]
     ELSE convs[k]]

\* round(confidence, 2), for a confidence in ten-thousandths
HalfHundredth == 50

Hundredth == 100

Round2(confidence) == ((confidence + HalfHundredth) \div Hundredth) * Hundredth

\* lines 256-275
response_data(conv_id, conv, agent_response, detection, intel, t) ==
  [status_code |-> 200,
   conversation_id |-> conv_id,
   response_message |-> agent_response,
   scam_detected |-> detection.is_scam,
   confidence_score |-> Round2(detection.confidence),
   extracted_intelligence |-> intel,
   engagement_metrics |->
     [turn_count |-> turn_count(conv.messages),
      engagement_duration_seconds |-> t - conv.start_time,
      messages_exchanged |-> Len(conv.messages)],
   agent_active |-> TRUE,
   status |-> "success"]

\* lines 288-310
ErrorResponse ==
  [status_code |-> 200,
   conversation_id |-> "error-recovery",
   response_message |-> GreetingToday,
   scam_detected |-> FALSE,
   confidence_score |-> 0,
   extracted_intelligence |-> EmptyIntelligence,
   engagement_metrics |->
     [turn_count |-> 1, engagement_duration_seconds |-> 0, messages_exchanged |-> 1],
   agent_active |-> TRUE,
   status |-> "success"]

\* the exception leaves the handler, which the code does not let it do
propagated(exc) == Raised(exc)

\* line 286: `except Exception` answers with the error response
recovered(exc) == ErrorResponse

\* the response of lines 256-284: the content, or what the except clause
\* makes of the failure to encode it
Rendered(content) ==
  IF RenderRaises(content) THEN recovered("UnicodeEncodeError") ELSE content

\* lines 233-284 for a message and an id of a dict key: the dict and the
\* response the handler leaves
Processed(tracked, conv_id, agent_response, detection, intel, t) ==
  [conversations |-> tracked,
   response |-> Rendered(response_data(conv_id, tracked[conv_id], agent_response,
                                       detection, intel, t))]

\* GET /conversation/{conversation_id}
get_conversation(convs, conversation_id) ==
  IF conversation_id \in DOMAIN convs
  THEN [status_code |-> 200, content |-> convs[conversation_id]]
  ELSE [status_code |-> 404, content |-> [error |-> "Not found"]]

\* DELETE /conversation/{conversation_id}: the path is registered for GET
\* alone (line 313) and no other route deletes, so the router answers 405
\* and no handler runs
delete_conversation(convs, conversation_id) ==
  [conversations |-> convs,
   response |-> [status_code |-> 405,
                 content |-> [detail |-> "Method Not Allowed"]]]

(***************************************************************************)
(* SpecEndpoint: requests to POST /honeypot.  The handler awaits the body  *)
(* (line 192), its only await; what follows runs on the event loop         *)
(* without suspension, so it is one step.  Requests are numbered in the    *)
(* order they arrive; any of those in flight may be served next.           *)
(***************************************************************************)
MaxRequests == 2

\* the instants, in seconds, at which requests are served
Seconds == {0, 1}

\* a scam message disclosing a phone number
MsgWon == <<"w", "o", "n", " ">> \o Phone

EndpointIds == {"c1", "c2"}

RequestBodies ==
  {[read |-> TRUE, conversation_id |-> JsonString("c1"), message |-> JsonString(MsgWon)],
   [read |-> TRUE, conversation_id |-> JsonString("c1"), message |-> JsonString(MsgHi)],
   [read |-> TRUE, conversation_id |-> JsonString("c2"), message |-> JsonString(MsgHi)],
   [read |-> TRUE, conversation_id |-> Missing, message |-> JsonString(MsgHi)],
   [read |-> TRUE, conversation_id |-> JsonString("c1"), message |-> Missing],
   [read |-> TRUE, conversation_id |-> JsonString("c1"), message |-> Number(7)],
   [read |-> TRUE, conversation_id |-> JsonList, message |-> JsonString(MsgWon)],
   [read |-> TRUE, conversation_id |-> JsonString(LoneSurrogateId),
    message |-> JsonString(MsgWon)],
   [read |-> FALSE, conversation_id |-> Missing, message |-> Missing]}

NoBody == [read |-> FALSE, conversation_id |-> Missing, message |-> Missing]

InitEndpoint ==
  /\ call = NoCall
  /\ ManagerIdle
  /\ conversations = <<>>
  /\ clock = 0
  /\ requests = [r \in 1..MaxRequests |->
                   [pc |-> "idle", body |-> NoBody, response |-> Pending]]

\* a request arrives and the handler awaits its body
Receive ==
  \E r \in 1..MaxRequests, body \in RequestBodies :
    /\ requests[r].pc = "idle"
    /\ r > 1 => requests[r - 1].pc # "idle"
    /\ requests' = [requests EXCEPT ![r] = [@ EXCEPT !.pc = "await_body",
                                                     !.body = body]]
    /\ UNCHANGED <<call, managerVars, conversations, clock>>

\* the handler returns the response and leaves the dict as out holds them
Return(r, out) ==
  /\ conversations' = out.conversations
  /\ requests' = [requests EXCEPT ![r] = [@ EXCEPT !.pc = "done",
                                                   !.response = out.response]]

\* lines 233-284: detection, reply, extraction, tracking and response
Process(r, conv_id, message, detection, intel) ==
  \E agent_response \in generate_response(message, detection.is_scam) :
    Return(r, Processed(track(conversations, conv_id, message, agent_response,
                              detection.is_scam, clock),
                        conv_id, agent_response, detection, intel, clock))

\* the exception a step of the handler raises before the dict is touched
Fails(r, exc) ==
  Return(r, [conversations |-> conversations, response |-> recovered(exc)])

\* the body is read and the handler runs to its return
Respond ==
  \E r \in 1..MaxRequests :
    /\ requests[r].pc = "await_body"
    /\ IF ~requests[r].body.read THEN Fails(r, "ClientDisconnect")
       ELSE IF MessageRaises(requests[r].body) THEN Fails(r, "AttributeError")
       ELSE IF ConvIdRaises(requests[r].body) THEN Fails(r, "TypeError")
       ELSE Process(r, ConvIdOf(requests[r].body, clock),
                    MessageOf(requests[r].body),
                    detect_scam(MessageOf(requests[r].body)),
                    extract_intelligence(MessageOf(requests[r].body)))
    /\ UNCHANGED <<call, managerVars, clock>>

\* GET /conversation/{conversation_id} answers and changes nothing
GetConversation ==
  \E id \in EndpointIds :
    /\ get_conversation(conversations, id).status_code \in {200, 404}
    /\ UNCHANGED vars

\* DELETE /conversation/{conversation_id}
DeleteConversation ==
  \E id \in EndpointIds :
    /\ conversations' = delete_conversation(conversations, id).conversations
    /\ UNCHANGED <<call, managerVars, clock, requests>>

\* time passes
Tick ==
  \E t \in Seconds :
    /\ t > clock
    /\ clock' = t
    /\ UNCHANGED <<call, managerVars, conversations, requests>>

NextEndpoint ==
  \/ Receive
  \/ Respond
  \/ GetConversation
  \/ DeleteConversation
  \/ Tick

SpecEndpoint == InitEndpoint /\ [][NextEndpoint]_vars

(***************************************************************************)
(* Claims about the endpoint (SpecEndpoint)                                *)
(***************************************************************************)
Done(r) == requests[r].pc = "done"

\* the handler logged the message of request r and its reply
Logged(r) ==
  /\ Done(r)
  /\ requests[r].body.read
  /\ ~MessageRaises(requests[r].body)
  /\ ~ConvIdRaises(requests[r].body)

\* request r was answered from its conversation: no step of the handler raised
Answered(r) ==
  /\ Logged(r)
  /\ requests[r].body.conversation_id # JsonString(LoneSurrogateId)

\* a step of the handler raised while it served request r
Faulted(r) == Done(r) /\ ~Answered(r)

\* request r is served in this step
Completes(r) == requests[r].pc = "await_body" /\ requests'[r].pc = "done"

\* the conversation request r was logged in
SessionOf(r) ==
  IF IsString(requests[r].body.conversation_id)
  THEN requests[r].body.conversation_id.str
  ELSE requests[r].response.conversation_id

LogOf(convs, conv_id) ==
  IF conv_id \in DOMAIN convs THEN convs[conv_id].messages ELSE <<>>

CeilHalf(n) == (n + 1) \div 2

MetricsMatch(metrics, log) ==
  /\ metrics.turn_count = CeilHalf(Len(log))
  /\ metrics.messages_exchanged = Len(log)

\* the turn count of every conversation held is ceil(len(messages) / 2)
TurnCountOfEveryLog ==
  \A id \in DOMAIN conversations :
    turn_count(conversations[id].messages) = CeilHalf(Len(conversations[id].messages))

Categories == DOMAIN EmptyIntelligence

\* per category, the union of what extract_intelligence finds in each
\* sender message of a log
SessionIntelligence(messages) ==
  [c \in Categories |->
     UNION {extract_intelligence(messages[i].content)[c] :
              i \in {j \in DOMAIN messages : messages[j].role = "scammer"}}]

SameIntelligence(a, b) == \A c \in Categories : a[c] = b[c]

\* C4: the intelligence of every response answered from a conversation is,
\* per category, the union over the sender messages logged in it so far.
C4_IntelligenceIsUnionOverSession ==
  [][\A r \in DOMAIN requests :
       (Completes(r) /\ Answered(r)') =>
         SameIntelligence(requests'[r].response.extracted_intelligence,
                          SessionIntelligence(
                            LogOf(conversations', requests'[r].response.conversation_id)))]_vars

\* the message of request r and the reply returned for it are at the places
\* n - 1 and n of the log, n being the messages_exchanged returned, and the
\* turn count returned is n / 2
LoggedWhereReturned(r) ==
  LET response == requests[r].response
      n == response.engagement_metrics.messages_exchanged
      log == LogOf(conversations, response.conversation_id)
  IN  /\ n \in 2..Len(log)
      /\ n % 2 = 0
      /\ log[n - 1] = [role |-> "scammer", content |-> MessageOf(requests[r].body)]
      /\ log[n] = [role |-> "agent", content |-> response.response_message]
      /\ response.engagement_metrics.turn_count = n \div 2

ResponseKeys ==
  {"status_code", "conversation_id", "response_message", "scam_detected",
   "confidence_score", "extracted_intelligence", "engagement_metrics",
   "agent_active", "status"}

MetricKeys == {"turn_count", "engagement_duration_seconds", "messages_exchanged"}

\* a complete result: a reply, a verdict, a confidence in [0, 1], the five
\* sets of intelligence and the metrics
WellFormed(response) ==
  /\ DOMAIN response = ResponseKeys
  /\ response.status_code = 200
  /\ response.response_message # <<>>
  /\ response.scam_detected \in BOOLEAN
  /\ response.confidence_score \in 0..FullConfidence
  /\ DOMAIN response.extracted_intelligence = Categories
  /\ DOMAIN response.engagement_metrics = MetricKeys

\* C6: every request served has a complete result; when a step of the
\* handler raised, the result is a non-scam response whose five sets of
\* intelligence are empty.
C6_AlwaysWellFormed ==
  \A r \in DOMAIN requests :
    Done(r) =>
      /\ WellFormed(requests[r].response)
      /\ Faulted(r) =>
           /\ ~requests[r].response.scam_detected
           /\ \A c \in Categories : requests[r].response.extracted_intelligence[c] = {}

\* a request whose response could not be encoded got the error response
\* after its scam message was logged, and another failed before the dict
\* was touched
C6_Witness ==
  \E r, s \in DOMAIN requests :
    /\ Logged(r)
    /\ Faulted(r)
    /\ conversations[SessionOf(r)].scam_detected
    /\ Faulted(s)
    /\ ~Logged(s)
    /\ requests[s].response = ErrorResponse

\* the metrics Conversation.get_metrics computes for every conversation the
\* manager holds are ceil(len(messages) / 2) and len(messages)
ManagerMetricsMatchLog ==
  \A id \in DOMAIN conversation_manager :
    MetricsMatch(get_metrics(conversation_manager[id]),
                 conversation_manager[id].messages)

(***************************************************************************)
(* Further claims about the extractors (SpecExtract)                       *)
(***************************************************************************)
SenderMessages(messages) == SelectSeq(messages, LAMBDA m : m.role = "scammer")

\* C11: the result of extract_from_conversation is its result over the
\* sender messages alone, and every identifier in it is found in a sender
\* message of the conversation.
C11_SenderMessagesOnly ==
  (call.fn = "extract_from_conversation" /\ Returned) =>
    /\ SameIntelligence(call.result,
                        extract_from_conversation(SenderMessages(call.arg)))
    /\ \A c \in Categories :
         \A x \in call.result[c] :
           \E i \in 1..Len(call.arg) :
             /\ call.arg[i].role = "scammer"
             /\ x \in extract_from_text(call.arg[i].content)[c]

\* C11 witness: the handle and the account that only the agent wrote are
\* in no category; the phone number of the sender is.
C11_Witness ==
  /\ call.fn = "extract_from_conversation"
  /\ Returned
  /\ call.arg = <<[role |-> "scammer", content |-> Phone],
                  [role |-> "agent",
                   content |-> <<"b", "@", "s", "b", "i">> \o Space \o Account]>>
  /\ extract_from_text(call.arg[2].content).upi_ids # {}
  /\ extract_from_text(call.arg[2].content).bank_accounts = {Account}
  /\ call.result.phone_numbers = {Phone}
  /\ call.result.upi_ids = {}
  /\ call.result.bank_accounts = {}

\* C16: extract_from_text and extract_intelligence, applied to the empty
\* text or to None, return five empty categories and do not raise.
C16_EmptyTextYieldsNothing ==
  (/\ call.fn \in {"extract_from_text", "extract_intelligence"}
   /\ call.arg \in {<<>>, None}
   /\ call.result # Pending)
  => call.result = EmptyIntelligence


\* the character before or after the text, or one that is no word character
Outside(t, i) == ~WordAt(t, i)

PhonePrefixes == {<<"+", "9", "1">>, <<"9", "1">>, <<"0">>}

\* at j a run of 10 digits, the first of them 6-9, stands alone in t: bare,
\* or preceded by one of the prefixes which then stands alone with it
WrittenPhoneAt(t, j) ==
  /\ j >= 1
  /\ j + PhoneLen - 1 <= Len(t)
  /\ t[j] \in PhoneFirstDigits
  /\ \A k \in j..(j + PhoneLen - 1) : t[k] \in Digits
  /\ Outside(t, j + PhoneLen)
  /\ \/ Outside(t, j - 1)
     \/ \E prefix \in PhonePrefixes :
          /\ j - Len(prefix) >= 1
          /\ HasPrefixAt(t, j - Len(prefix), prefix)
          /\ prefix[1] = "+" \/ Outside(t, j - Len(prefix) - 1)

\* C17: every run of 10 digits with first digit 6-9 that stands alone in the
\* text, bare or after the prefix +91, 91 or 0, is in phone_numbers as its
\* bare 10 digits, also when the 10 digits begin with 91; and every phone
\* number returned is 10 digits with first digit 6-9.
C17_WrittenPhonesAreEmitted ==
  (/\ call.fn \in {"extract_from_text", "extract_intelligence"}
   /\ call.arg # None
   /\ Returned)
  => /\ \A j \in 1..Len(call.arg) :
          WrittenPhoneAt(call.arg, j) =>
            SubSeq(call.arg, j, j + PhoneLen - 1) \in call.result.phone_numbers
     /\ \A p \in call.result.phone_numbers : PhoneShaped(p)

\* every phone number returned is 10 digits with first digit 6-9, and every
\* standalone run that does not begin with a prefix itself is returned
WrittenPhonesAreEmittedUnlessPrefixLike ==
  (/\ call.fn \in {"extract_from_text", "extract_intelligence"}
   /\ call.arg # None
   /\ Returned)
  => /\ \A j \in 1..Len(call.arg) :
          (/\ WrittenPhoneAt(call.arg, j)
           /\ ~HasPrefixAt(call.arg, j, <<"9", "1">>))
          => SubSeq(call.arg, j, j + PhoneLen - 1) \in call.result.phone_numbers
     /\ \A p \in call.result.phone_numbers : PhoneShaped(p)

\* the character at k of t lies inside a match of the URL pattern
InsideUrl(t, k) ==
  \E i \in 1..k : MatchEnd("url", t, i) > k

\* t holds an "@", and each one it holds lies inside a URL
HandlesOnlyInsideUrls(t) ==
  /\ \E k \in 1..Len(t) : t[k] = "@"
  /\ \A k \in 1..Len(t) : t[k] = "@" => InsideUrl(t, k)

\* C18: the text from which payment handles are taken has the matched URLs
\* removed: a text whose every x@y lies inside a URL gives no payment handle.
C18_NoHandleFromInsideUrl ==
  (/\ call.fn \in {"extract_from_text", "extract_intelligence"}
   /\ call.arg # None
   /\ Returned
   /\ HandlesOnlyInsideUrls(call.arg))
  => call.result.upi_ids = {}

\* the same of IntelligenceExtractor.extract_from_text alone
NoHandleFromInsideUrlInClass ==
  (/\ call.fn = "extract_from_text"
   /\ call.arg # None
   /\ Returned
   /\ HandlesOnlyInsideUrls(call.arg))
  => /\ call.result.upi_ids = {}
     /\ call.result.phishing_urls # {}

(***************************************************************************)
(* Further claims about the conversation manager (SpecManager)             *)
(***************************************************************************)
\* after is before without exactly the conversations idle for more than
\* max_age_hours at t, each of the others as it was
Swept(before, after, max_age_hours, t) ==
  /\ DOMAIN after =
       {c \in DOMAIN before : t - before[c].last_activity <= max_age_hours}
  /\ \A c \in DOMAIN after : after[c] = before[c]

\* C12: a sweep with max_age_hours = h deletes exactly the conversations
\* whose last_activity lies more than h hours before the sweep and leaves
\* every other conversation as it was, whatever the store and the instant.
C12_SweepDeletesExactlyTheIdle ==
  /\ [](\A h \in MaxAges :
          Swept(conversation_manager,
                cleanup_old_conversations(conversation_manager, h, now), h, now))
  /\ [][call'.fn = "cleanup_old_conversations" =>
          /\ Swept(conversation_manager, conversation_manager', call'.arg, now)
          /\ call'.result =
               DOMAIN conversation_manager \ DOMAIN conversation_manager'
       ]_vars

\* a sweep with the default 24 hours has deleted c2, idle for 25 hours, and
\* kept c1, idle for 23 hours
C12_Witness ==
  /\ call.fn = "cleanup_old_conversations"
  /\ call.arg = DefaultMaxAgeHours
  /\ call.result = {"c2"}
  /\ "c1" \in DOMAIN conversation_manager
  /\ now - conversation_manager["c1"].last_activity = DefaultMaxAgeHours - 1
  /\ Len(conversation_manager["c1"].messages) > 0

\* a sweep has kept a conversation that is exactly max_age_hours old
C12_WitnessAtCutoff ==
  /\ call.fn = "cleanup_old_conversations"
  /\ \E c \in DOMAIN conversation_manager :
       now - conversation_manager[c].last_activity = call.arg


\* a request on the conversation is in flight: its scammer message is
\* logged and the reply to it is not
InFlight(conversation) ==
  /\ Len(conversation.messages) > 0
  /\ conversation.messages[Len(conversation.messages)].role = "scammer"

\* C13: no sweep deletes a conversation while a request on it is in flight,
\* that is between the append of its scammer message and the append of the
\* reply.
C13_SweepSparesInFlight ==
  [][call'.fn = "cleanup_old_conversations" =>
       \A c \in call'.result : ~InFlight(conversation_manager[c])
    ]_vars


\* the log of conversation c before a step: empty when the step creates it
LogBefore(c) ==
  IF c \in DOMAIN conversation_manager
  THEN conversation_manager[c].messages
  ELSE <<>>

\* after is a conversation whose log is old, or old with one message after
\* it, stamped t, and then with last_activity t
GrownByOneAt(old, after, t) ==
  \/ after.messages = old
  \/ /\ after.messages = Append(old, after.messages[Len(after.messages)])
     /\ after.messages[Len(after.messages)].timestamp = t
     /\ after.last_activity = t

\* C19: the log of a conversation only grows at its end: a step leaves it as
\* it was or adds one message after the messages it held, which keep their
\* order; the step that adds a message sets last_activity to the time of the
\* append; and last_activity is never before start_time.
C19_LogAppendOnly ==
  /\ [][\A c \in DOMAIN conversation_manager' :
          GrownByOneAt(LogBefore(c), conversation_manager'[c], now)]_vars
  /\ [](\A c \in DOMAIN conversation_manager :
          conversation_manager[c].last_activity >=
            conversation_manager[c].start_time)

\* a conversation begun at hour 0 got its second message at hour 2
C19_Witness ==
  \E c \in DOMAIN conversation_manager :
    /\ Len(conversation_manager[c].messages) = 2
    /\ conversation_manager[c].messages[1].timestamp = 0
    /\ conversation_manager[c].messages[2].timestamp = 2
    /\ conversation_manager[c].start_time = 0
    /\ conversation_manager[c].last_activity = 2

\* every conversation of before other than conversation_id is in after as
\* it was: messages, flags, confidence and times
OthersUntouched(before, after, conversation_id) ==
  \A other \in DOMAIN before \ {conversation_id} :
    /\ other \in DOMAIN after
    /\ after[other] = before[other]

\* C20: conversations are isolated: a step that creates, appends to or marks
\* a conversation leaves the messages, the flags, the confidence and the
\* times of every other conversation as they were, in whatever order calls
\* on different ids are made.  (A sweep, the one step that deletes, is not
\* among them.)
C20_ConversationsIsolated ==
  [][DOMAIN conversation_manager \subseteq DOMAIN conversation_manager' =>
       \E id \in ConversationIds :
         OthersUntouched(conversation_manager, conversation_manager', id)
    ]_vars

\* the same of the calls themselves: a call for id changes no conversation
\* but the one of that id
CallsLeaveOthersUntouched ==
  \A id \in ConversationIds :
    /\ OthersUntouched(conversation_manager,
         get_or_create(conversation_manager, id, now), id)
    /\ \A message \in ScammerMessages :
         OthersUntouched(conversation_manager,
           add_scammer_message(conversation_manager, id, message, now), id)
    /\ \A response \in AgentResponses :
         OthersUntouched(conversation_manager,
           add_agent_response(conversation_manager, id, response, now), id)
    /\ \A confidence \in MarkConfidences :
         OthersUntouched(conversation_manager,
           mark_scam_detected(conversation_manager, id, confidence, now), id)

\* c1 was written to and marked at hour 2 while c2, created at hour 0, is
\* as it was created
C20_Witness ==
  /\ DOMAIN conversation_manager = {"c1", "c2"}
  /\ Len(conversation_manager["c1"].messages) = 2
  /\ conversation_manager["c1"].scam_detected
  /\ conversation_manager["c1"].last_activity = 2
  /\ conversation_manager["c2"] = Conversation("c2", 0)

(***************************************************************************)
(* Further claims about the endpoint (SpecEndpoint)                        *)
(***************************************************************************)
NotFound == 404

\* the dicts a and b hold the same conversations
SameStore(a, b) ==
  /\ DOMAIN a = DOMAIN b
  /\ \A c \in DOMAIN a : a[c] = b[c]

\* a lookup of an id the dict does not hold answers 404, and no lookup
\* creates or changes a conversation (the handler only reads the dict)
LookupOfUnknownIsNotFound ==
  \A id \in EndpointIds :
    id \notin DOMAIN conversations =>
      get_conversation(conversations, id).status_code = NotFound

\* C14: a lookup and a deletion of an id that the store does not hold answer
\* NotFound and leave the store as it was; a deletion of an id it holds
\* removes that conversation and no other, and a lookup of the id then
\* answers NotFound.
C14_LookupAndDelete ==
  \A id \in EndpointIds :
    LET deleted == delete_conversation(conversations, id)
    IN  IF id \notin DOMAIN conversations
        THEN /\ get_conversation(conversations, id).status_code = NotFound
             /\ deleted.response.status_code = NotFound
             /\ SameStore(deleted.conversations, conversations)
        ELSE /\ DOMAIN deleted.conversations = DOMAIN conversations \ {id}
             /\ \A c \in DOMAIN deleted.conversations :
                  deleted.conversations[c] = conversations[c]
             /\ get_conversation(deleted.conversations, id).status_code = NotFound


(***************************************************************************)
(* agent.py: HoneypotAgent.  The Groq chat completion is the external      *)
(* capability; what it does for a call is one of the outcomes below.       *)
(***************************************************************************)
\* "Ji haan, I want to receive the money. Which bank account should I give? Please tell me what details you need."
ReplyBank ==
  <<"J", "i", " ", "h", "a", "a", "n", ",", " ", "I", " ", "w", "a", "n",
    "t", " ", "t", "o", " ", "r", "e", "c", "e", "i", "v", "e", " ", "t",
    "h", "e", " ", "m", "o", "n", "e", "y", ".", " ", "W", "h", "i", "c",
    "h", " ", "b", "a", "n", "k", " ", "a", "c", "c", "o", "u", "n", "t",
    " ", "s", "h", "o", "u", "l", "d", " ", "I", " ", "g", "i", "v", "e",
    "?", " ", "P", "l", "e", "a", "s", "e", " ", "t", "e", "l", "l", " ",
    "m", "e", " ", "w", "h", "a", "t", " ", "d", "e", "t", "a", "i", "l",
    "s", " ", "y", "o", "u", " ", "n", "e", "e", "d", ".">>

\* "I have UPI. Should I send you my UPI ID? Or do you have a UPI ID where I should send?"
ReplyUpi ==
  <<"I", " ", "h", "a", "v", "e", " ", "U", "P", "I", ".", " ", "S", "h",
    "o", "u", "l", "d", " ", "I", " ", "s", "e", "n", "d", " ", "y", "o",
    "u", " ", "m", "y", " ", "U", "P", "I", " ", "I", "D", "?", " ", "O",
    "r", " ", "d", "o", " ", "y", "o", "u", " ", "h", "a", "v", "e", " ",
    "a", " ", "U", "P", "I", " ", "I", "D", " ", "w", "h", "e", "r", "e",
    " ", "I", " ", "s", "h", "o", "u", "l", "d", " ", "s", "e", "n", "d",
    "?">>

\* "Please send the link again, I could not see properly. My phone is little old, sometimes links don't open."
ReplyLink ==
  <<"P", "l", "e", "a", "s", "e", " ", "s", "e", "n", "d", " ", "t", "h",
    "e", " ", "l", "i", "n", "k", " ", "a", "g", "a", "i", "n", ",", " ",
    "I", " ", "c", "o", "u", "l", "d", " ", "n", "o", "t", " ", "s", "e",
    "e", " ", "p", "r", "o", "p", "e", "r", "l", "y", ".", " ", "M", "y",
    " ", "p", "h", "o", "n", "e", " ", "i", "s", " ", "l", "i", "t", "t",
    "l", "e", " ", "o", "l", "d", ",", " ", "s", "o", "m", "e", "t", "i",
    "m", "e", "s", " ", "l", "i", "n", "k", "s", " ", "d", "o", "n", "'",
    "t", " ", "o", "p", "e", "n", ".">>

\* "OTP? You mean the number that comes on phone? Yes yes, I can share. What should I do?"
ReplyOtp ==
  <<"O", "T", "P", "?", " ", "Y", "o", "u", " ", "m", "e", "a", "n", " ",
    "t", "h", "e", " ", "n", "u", "m", "b", "e", "r", " ", "t", "h", "a",
    "t", " ", "c", "o", "m", "e", "s", " ", "o", "n", " ", "p", "h", "o",
    "n", "e", "?", " ", "Y", "e", "s", " ", "y", "e", "s", ",", " ", "I",
    " ", "c", "a", "n", " ", "s", "h", "a", "r", "e", ".", " ", "W", "h",
    "a", "t", " ", "s", "h", "o", "u", "l", "d", " ", "I", " ", "d", "o",
    "?">>

\* "Really? I won? This is so wonderful! How much is the prize? How do I claim it?"
ReplyPrize ==
  <<"R", "e", "a", "l", "l", "y", "?", " ", "I", " ", "w", "o", "n", "?",
    " ", "T", "h", "i", "s", " ", "i", "s", " ", "s", "o", " ", "w", "o",
    "n", "d", "e", "r", "f", "u", "l", "!", " ", "H", "o", "w", " ", "m",
    "u", "c", "h", " ", "i", "s", " ", "t", "h", "e", " ", "p", "r", "i",
    "z", "e", "?", " ", "H", "o", "w", " ", "d", "o", " ", "I", " ", "c",
    "l", "a", "i", "m", " ", "i", "t", "?">>

\* "Yes, I need to do KYC. Please guide me step by step, I am not very good with phones."
ReplyKyc ==
  <<"Y", "e", "s", ",", " ", "I", " ", "n", "e", "e", "d", " ", "t", "o",
    " ", "d", "o", " ", "K", "Y", "C", ".", " ", "P", "l", "e", "a", "s",
    "e", " ", "g", "u", "i", "d", "e", " ", "m", "e", " ", "s", "t", "e",
    "p", " ", "b", "y", " ", "s", "t", "e", "p", ",", " ", "I", " ", "a",
    "m", " ", "n", "o", "t", " ", "v", "e", "r", "y", " ", "g", "o", "o",
    "d", " ", "w", "i", "t", "h", " ", "p", "h", "o", "n", "e", "s", ".">>

\* "Ji, I am interested. Please tell me more details. What should I do next?"
ReplyInterested ==
  <<"J", "i", ",", " ", "I", " ", "a", "m", " ", "i", "n", "t", "e", "r",
    "e", "s", "t", "e", "d", ".", " ", "P", "l", "e", "a", "s", "e", " ",
    "t", "e", "l", "l", " ", "m", "e", " ", "m", "o", "r", "e", " ", "d",
    "e", "t", "a", "i", "l", "s", ".", " ", "W", "h", "a", "t", " ", "s",
    "h", "o", "u", "l", "d", " ", "I", " ", "d", "o", " ", "n", "e", "x",
    "t", "?">>

\* "Namaste ji, kaun bol raha hai?"
ReplyNamaste ==
  <<"N", "a", "m", "a", "s", "t", "e", " ", "j", "i", ",", " ", "k", "a",
    "u", "n", " ", "b", "o", "l", " ", "r", "a", "h", "a", " ", "h", "a",
    "i", "?">>

\* "Ji haan, please tell me more."
ReplyTellMore ==
  <<"J", "i", " ", "h", "a", "a", "n", ",", " ", "p", "l", "e", "a", "s",
    "e", " ", "t", "e", "l", "l", " ", "m", "e", " ", "m", "o", "r", "e",
    ".">>

\* "Achha ji, please continue."
ReplyContinue ==
  <<"A", "c", "h", "h", "a", " ", "j", "i", ",", " ", "p", "l", "e", "a",
    "s", "e", " ", "c", "o", "n", "t", "i", "n", "u", "e", ".">>

\* lines 121-132: the words tested in turn when a scam was detected, each
\* with the reply returned for it
fallback_replies ==
  <<[words |-> {<<"a", "c", "c", "o", "u", "n", "t">>, <<"b", "a", "n", "k">>, <<"t", "r", "a", "n", "s", "f", "e", "r">>},
     reply |-> ReplyBank],
    [words |-> {<<"u", "p", "i">>, <<"p", "a", "y", "t", "m">>, <<"p", "h", "o", "n", "e", "p", "e">>, <<"g", "p", "a", "y">>},
     reply |-> ReplyUpi],
    [words |-> {<<"l", "i", "n", "k">>, <<"c", "l", "i", "c", "k">>, <<"w", "e", "b", "s", "i", "t", "e">>},
     reply |-> ReplyLink],
    [words |-> {<<"o", "t", "p">>, <<"c", "o", "d", "e">>, <<"v", "e", "r", "i", "f", "i", "c", "a", "t", "i", "o", "n">>},
     reply |-> ReplyOtp],
    [words |-> {<<"l", "o", "t", "t", "e", "r", "y">>, <<"p", "r", "i", "z", "e">>, <<"w", "o", "n">>, <<"w", "i", "n", "n", "e", "r">>},
     reply |-> ReplyPrize],
    [words |-> {<<"k", "y", "c">>, <<"v", "e", "r", "i", "f", "y">>, <<"u", "p", "d", "a", "t", "e">>},
     reply |-> ReplyKyc]>>

\* line 136
greeting_words == {<<"h", "e", "l", "l", "o">>, <<"h", "i">>, <<"n", "a", "m", "a", "s", "t", "e">>}

RECURSIVE FirstReply(_, _, _)
\* the reply of the first of the rules from the i-th on, one of whose words
\* occurs in message_lower; ReplyInterested when there is none
FirstReply(rules, message_lower, i) ==
  IF i > Len(rules) THEN ReplyInterested
  ELSE IF \E word \in rules[i].words : IsSubstring(word, message_lower)
       THEN rules[i].reply
       ELSE FirstReply(rules, message_lower, i + 1)

\* HoneypotAgent._generate_fallback_response
generate_fallback_response(scammer_message, scam_detected) ==
  LET message_lower == LowerText(scammer_message)
  IN  IF scam_detected THEN FirstReply(fallback_replies, message_lower, 1)
      ELSE IF \E word \in greeting_words : IsSubstring(word, message_lower)
           THEN ReplyNamaste
      ELSE IF "?" \in Range(scammer_message) THEN ReplyTellMore
      ELSE ReplyContinue

\* str.strip(): the text without the whitespace at its two ends
Strip(t) ==
  LET kept == {i \in 1..Len(t) : t[i] \notin SpaceSet}
  IN  IF kept = {} THEN <<>>
      ELSE SubSeq(t, CHOOSE i \in kept : \A j \in kept : i <= j,
                     CHOOSE i \in kept : \A j \in kept : i >= j)

\* What chat.completions.create does for a call: it raises; or it returns a
\* completion without choices; or one whose first choice has no content
\* (None); or one whose first choice holds a text.
NoChoices == [choices |-> 0]

Content(text) == [content |-> text]

\* lines 104-114: the completion's text stripped; the fallback reply when
\* the call, the indexing or the strip raises
generate_ai_response(scammer_message, conversation_history, scam_detected, completion) ==
  IF "content" \in DOMAIN completion /\ completion.content # None
  THEN Strip(completion.content)
  ELSE generate_fallback_response(scammer_message, scam_detected)

\* HoneypotAgent.generate_response; groq_client is FALSE when the agent has
\* no client (no API key, or Groq() raised)
agent_generate_response(groq_client, scammer_message, conversation_history, scam_detected, completion) ==
  IF groq_client
  THEN generate_ai_response(scammer_message, conversation_history,
                            scam_detected, completion)
  ELSE generate_fallback_response(scammer_message, scam_detected)

(***************************************************************************)
(* SpecAgent: one call of a reply generator, of the agent or of main.py,   *)
(* on a message, a history, a flag and an outcome of the external call.    *)
(***************************************************************************)
\* "Share your Bank Account"
MsgBank ==
  <<"S", "h", "a", "r", "e", " ", "y", "o", "u", "r", " ", "B", "a", "n",
    "k", " ", "A", "c", "c", "o", "u", "n", "t">>

\* "pay by UPI?"
MsgUpi ==
  <<"p", "a", "y", " ", "b", "y", " ", "U", "P", "I", "?">>

\* "CLICK the link"
MsgLink ==
  <<"C", "L", "I", "C", "K", " ", "t", "h", "e", " ", "l", "i", "n", "k">>

\* "update kyc"
MsgKyc ==
  <<"u", "p", "d", "a", "t", "e", " ", "k", "y", "c">>

\* "Hello"
MsgHello ==
  <<"H", "e", "l", "l", "o">>

\* "why?"
MsgWhy ==
  <<"w", "h", "y", "?">>

AgentMessages ==
  {<<>>, MsgHi, MsgHello, MsgWhy, MsgLottery, MsgUrgent, MsgMoney, MsgBank,
   MsgUpi, MsgLink, MsgKyc}

\* texts a completion may hold: none, whitespace alone, a reply with
\* whitespace around it, a reply
CompletionTexts ==
  {<<>>, <<" ">>, <<" ", "\n">>, <<" ", "o", "k", " ", "j", "i", "\n">>,
   <<"o", "k">>}

Completions ==
  {Raised("APIConnectionError"), NoChoices, Content(None)}
    \cup {Content(text) : text \in CompletionTexts}

\* the agent without a client makes no external call
NoCompletion == [none |-> TRUE]

Reply(text) == [reply |-> text]

InitAgent ==
  /\ call \in
       {[fn |-> "HoneypotAgent.generate_response",
         arg |-> [groq_client |-> TRUE, scammer_message |-> m,
                  conversation_history |-> h, scam_detected |-> d,
                  completion |-> c],
         result |-> Pending] :
          m \in AgentMessages, h \in DetectHistories, d \in BOOLEAN,
          c \in Completions}
       \cup
       {[fn |-> "HoneypotAgent.generate_response",
         arg |-> [groq_client |-> FALSE, scammer_message |-> m,
                  conversation_history |-> h, scam_detected |-> d,
                  completion |-> NoCompletion],
         result |-> Pending] :
          m \in AgentMessages, h \in DetectHistories, d \in BOOLEAN}
       \cup
       {[fn |-> "generate_response",
         arg |-> [message |-> m, is_scam |-> d],
         result |-> Pending] :
          m \in AgentMessages \cup {None}, d \in BOOLEAN}
  /\ ManagerIdle
  /\ EndpointIdle

AgentGenerateResponse ==
  /\ call.fn = "HoneypotAgent.generate_response"
  /\ call.result = Pending
  /\ call' = [call EXCEPT
                !.result = Reply(agent_generate_response(
                                   call.arg.groq_client,
                                   call.arg.scammer_message,
                                   call.arg.conversation_history,
                                   call.arg.scam_detected,
                                   call.arg.completion))]
  /\ UNCHANGED <<managerVars, endpointVars>>

GenerateResponse ==
  /\ call.fn = "generate_response"
  /\ call.result = Pending
  /\ \E agent_response \in generate_response(call.arg.message, call.arg.is_scam) :
       call' = [call EXCEPT !.result = Reply(agent_response)]
  /\ UNCHANGED <<managerVars, endpointVars>>

NextAgent == AgentGenerateResponse \/ GenerateResponse

SpecAgent == InitAgent /\ [][NextAgent]_vars

(***************************************************************************)
(* Claims about the reply generators (SpecAgent)                           *)
(***************************************************************************)
\* C15: the reply generated for a message is never empty, whatever the
\* message, the history and the flag, and whether the external call is not
\* made, raises, or returns any text at all.
C15_ReplyNeverEmpty ==
  (/\ call.fn \in {"HoneypotAgent.generate_response", "generate_response"}
   /\ call.result # Pending)
  => /\ Returned
     /\ call.result.reply # <<>>

\* the reply is never empty when the external call is not made, raises, or
\* returns nothing to strip; nor is a reply of main.generate_response
ReplyNeverEmptyWithoutCompletionText ==
  (/\ call.fn \in {"HoneypotAgent.generate_response", "generate_response"}
   /\ call.result # Pending
   /\ call.fn = "HoneypotAgent.generate_response" =>
        ~("content" \in DOMAIN call.arg.completion
            /\ call.arg.completion.content # None))
  => /\ Returned
     /\ call.result.reply # <<>>


\* main.py's dict: a conversation stays, and its log keeps the messages it
\* held, in their order, under whatever a step adds after them
EndpointLogOnlyGrows ==
  [][\A c \in DOMAIN conversations :
       /\ c \in DOMAIN conversations'
       /\ Len(conversations'[c].messages) >= Len(conversations[c].messages)
       /\ SubSeq(conversations'[c].messages, 1, Len(conversations[c].messages))
            = conversations[c].messages
       /\ conversations'[c].start_time = conversations[c].start_time
    ]_vars


\* main.py's dict: a step changes or creates at most one conversation and
\* leaves every other one as it was
EndpointConversationsIsolated ==
  [][/\ DOMAIN conversations \subseteq DOMAIN conversations'
     /\ Cardinality({c \in DOMAIN conversations' :
                       \/ c \notin DOMAIN conversations
                       \/ conversations'[c] # conversations[c]}) <= 1
    ]_vars


(***************************************************************************)
(* SpecAi: one call of ScamDetector.detect, with the external assessment   *)
(* (line 139) as a call in flight.  The detector passes the client neither *)
(* a timeout nor a number of retries (lines 24, 139-144), so whether the   *)
(* client gives a silent service up, and after how many attempts, is the   *)
(* client's: every policy is drawn.  call holds the position of the call   *)
(* (pc) and the attempts made.                                             *)
(***************************************************************************)
\* the most retries a client policy of the model makes
MaxRetries == 2

\* the service never answers
Silent == [kind |-> "silent"]

\* the client raising its timeout error is an API call that raises
TimedOut == [kind |-> "raises"]

ServiceOutcomes ==
  {[kind |-> "absent"], [kind |-> "raises"], [kind |-> "not_json"],
   [kind |-> "json_object", confidence |-> Number(85),
    reason |-> JsonString("looks like fraud")],
   Silent}

ClientPolicies == [timeout : BOOLEAN, max_retries : 0..MaxRetries]

AiMessages == {MsgHi, MsgLottery, MsgUrgent}

InitAi ==
  /\ call \in
       {[fn |-> "detect",
         arg |-> [message |-> m, history |-> h, service |-> s, client |-> c],
         pc |-> "start", attempts |-> 0, result |-> Pending] :
          m \in AiMessages, h \in DetectHistories, s \in ServiceOutcomes,
          c \in ClientPolicies}
  /\ ManagerIdle
  /\ EndpointIdle

\* lines 115-116: without a client detect goes on with the neutral score
DetectWithoutClient ==
  /\ call.pc = "start"
  /\ call.arg.service.kind = "absent"
  /\ call' = [call EXCEPT
                !.pc = "done",
                !.result = detect(call.arg.message, call.arg.history,
                                  call.arg.service)]
  /\ UNCHANGED <<managerVars, endpointVars>>

\* line 139: the request is sent and detect waits in create()
AiCall ==
  /\ call.pc = "start"
  /\ call.arg.service.kind # "absent"
  /\ call' = [call EXCEPT !.pc = "calling", !.attempts = 1]
  /\ UNCHANGED <<managerVars, endpointVars>>

\* lines 146-161: the service answers (or the call fails) and detect returns
ServiceAnswers ==
  /\ call.pc = "calling"
  /\ call.arg.service.kind # "silent"
  /\ call' = [call EXCEPT
                !.pc = "done",
                !.result = detect(call.arg.message, call.arg.history,
                                  call.arg.service)]
  /\ UNCHANGED <<managerVars, endpointVars>>

\* a client with a timeout sends the request again while it has retries
ClientRetries ==
  /\ call.pc = "calling"
  /\ call.arg.service.kind = "silent"
  /\ call.arg.client.timeout
  /\ call.attempts <= call.arg.client.max_retries
  /\ call' = [call EXCEPT !.attempts = @ + 1]
  /\ UNCHANGED <<managerVars, endpointVars>>

\* a client with a timeout and no retry left raises; lines 159-161 catch it
ClientGivesUp ==
  /\ call.pc = "calling"
  /\ call.arg.service.kind = "silent"
  /\ call.arg.client.timeout
  /\ call.attempts > call.arg.client.max_retries
  /\ call' = [call EXCEPT
                !.pc = "done",
                !.result = detect(call.arg.message, call.arg.history, TimedOut)]
  /\ UNCHANGED <<managerVars, endpointVars>>

NextAi ==
  \/ DetectWithoutClient
  \/ AiCall
  \/ ServiceAnswers
  \/ ClientRetries
  \/ ClientGivesUp

SpecAi == InitAi /\ [][NextAi]_vars

\* detect runs on while it can: its own steps, the client's timer and the
\* answer of a service that answers are not put off for ever
SpecAiFair ==
  /\ SpecAi
  /\ WF_vars(DetectWithoutClient)
  /\ WF_vars(AiCall)
  /\ WF_vars(ServiceAnswers)
  /\ WF_vars(ClientRetries)
  /\ WF_vars(ClientGivesUp)

(***************************************************************************)
(* Claims about the external assessment (SpecAiFair)                       *)
(***************************************************************************)
\* detect has returned what it returns for the neutral score
ReturnedNeutral ==
  /\ call.pc = "done"
  /\ call.result = detect(call.arg.message, call.arg.history, TimedOut)

BoundedUnderTimeoutAndOneRetry ==
  /\ [](call.arg.service.kind = "silent" /\ call.arg.client.timeout
          /\ call.arg.client.max_retries <= 1
        => call.attempts <= 2)
  /\ (call.arg.service.kind = "silent" /\ call.arg.client.timeout)
       ~> ReturnedNeutral

\* a service that answers, fails or is not called lets detect return
AnsweredCallReturns ==
  (call.arg.service.kind # "silent") ~> (call.pc = "done" /\ call.result # Pending)


\* the liveness half of C21 alone
SilentServiceStillReturns ==
  (call.arg.service.kind = "silent") ~> ReturnedNeutral

=============================================================================
